---- MODULE Spec2Model ----
(***************************************************************************)
(* hexswarm: the filesystem-backed task store (agent_mcp/storage.py) and   *)
(* the task lifecycle of the agent server (agent_mcp/server.py).           *)
(*                                                                         *)
(* StoreSpec  : write_task step by step, several writer processes, writer  *)
(*              crashes and failed temporary-file writes.                  *)
(* ReadSpec   : one writer process against one unlocked reader (load_task, *)
(*              load_all, list_by_status), file access by file access.     *)
(* ServerSpec : one BaseAgentServer over the store; a handler runs         *)
(*              atomically up to the await of execute_task, where          *)
(*              cancel_task, other submissions and a crash interleave.     *)
(* QuerySpec  : the server alone, with task_status and task_result.        *)
(* SubmitSpec : submit_task with authorisation and malformed requests.     *)
(* MoveSpec   : write_task of one process against move_task of another.    *)
(* TrackerSpec, BestSpec : a ResourceTracker (agent_mcp/resources.py):     *)
(*              record_task and reload; best_agent_for.                    *)
(* ExhaustedSpec : is_exhausted in binary64 for wide counters.             *)
(* RequestSpec, RoundTripSpec : TaskRequest through to_dict / from_dict;   *)
(*              TaskRecord through write_task, load_task and load_all.     *)
(* PerfSpec   : record_agent_performance and get_best_agent_for_task      *)
(*              (agent_mcp/context_builder.py).                            *)
(* LedgerSpec : two server processes booking tasks in one ledger file.     *)
(* TwinSpec   : a second server constructed over the root of a live one.   *)
(* LiveSpec   : the server beside a lock-taking process, with fairness.    *)
(* StatusSpec : the server with agent_status and agent_info.               *)
(***************************************************************************)
EXTENDS Integers, Sequences, FiniteSets, TLC

\* ------------------------------------------------------------------ bounds
NumTasks == 1
NumWriters == 2
MaxFaults == 1
SrvTasks == 2

\* ------------------------------------------------------- program constants
LockRetries == 10

Tasks == 1..NumTasks
Writers == 1..NumWriters

\* Python's None for an optional string; an optional number is <<>> or <<n>>
None == "None"
\* an absent TaskResult / TaskRecord, an absent file, a file cut short
NoResult == [no_result |-> TRUE]
NoRecord == [no_record |-> TRUE]
NoFile == [no_file |-> TRUE]
Partial == [partial |-> TRUE]
\* no AgentResources entry; no response yet
NoAgent == [no_agent |-> TRUE]
NoResp == [no_response |-> TRUE]

\* class TaskStatus, in declaration order (the order `for status in TaskStatus` visits)
TaskStatus == <<"pending", "running", "completed", "failed", "cancelled">>
Statuses == {TaskStatus[i] : i \in 1..Len(TaskStatus)}
Terminal == {"completed", "failed", "cancelled"}

RestartError == "Server restarted while task was running."
LockTimeoutError == "Timeout acquiring lock for task"
NoResultError == "Task returned no result"

\* ----------------------------------------------------------- data model
\* A dict is a record; d.get(k, default)
Get(d, k, default) == IF k \in DOMAIN d THEN d[k] ELSE default

\* class TaskType, class OutputFormat, class TaskPriority: the values of the
\* members. The classes derive from str, so a member equals its value.
TaskType == {"code", "research", "analysis", "general"}
OutputFormat == {"text", "json", "file"}
TaskPriority == {"low", "normal", "high"}

\* an exception that comes out of a call, and the test for one
IsError(x) == DOMAIN x = {"error"}

\* {}
EmptyDict == [k \in {} |-> None]

\* faulty variant: a value outside the class is taken as it comes
InEnum_unchecked(members, v) == TRUE

\* Enum(value) gives the member of that value and raises ValueError for any
\* other value: the test it makes
InEnum(members, v) == v \in members

\* TaskRequest(type, description, files, context, constraints, output_format,
\* priority, callback, timeout_seconds)
TaskRequest(type, description, fs, context, constraints, output_format, priority, callback, timeout_seconds) ==
    [type |-> type, description |-> description, files |-> fs, context |-> context,
     constraints |-> constraints, output_format |-> output_format,
     priority |-> priority, callback |-> callback, timeout_seconds |-> timeout_seconds]

\* faulty variant: the priority is not read from the dict
RequestFromDict_default_priority(data) ==
    LET type == Get(data, "type", "general")
        output_format == Get(data, "output_format", "text")
    IN  IF ~InEnum(TaskType, type) \/ ~InEnum(OutputFormat, output_format)
        THEN [error |-> "ValueError"]
        ELSE TaskRequest(type, Get(data, "description", ""), Get(data, "files", <<>>),
                         Get(data, "context", None), Get(data, "constraints", <<>>),
                         output_format, "normal", Get(data, "callback", None),
                         Get(data, "timeout_seconds", <<>>))

\* TaskRequest.from_dict: a value outside the class of type, output_format or
\* priority raises ValueError. `list(x or [])` is x for a list.
RequestFromDict(data) ==
    LET type == Get(data, "type", "general")
        output_format == Get(data, "output_format", "text")
        priority == Get(data, "priority", "normal")
    IN  IF \/ ~InEnum(TaskType, type)
           \/ ~InEnum(OutputFormat, output_format)
           \/ ~InEnum(TaskPriority, priority)
        THEN [error |-> "ValueError"]
        ELSE TaskRequest(type, Get(data, "description", ""), Get(data, "files", <<>>),
                         Get(data, "context", None), Get(data, "constraints", <<>>),
                         output_format, priority, Get(data, "callback", None),
                         Get(data, "timeout_seconds", <<>>))

\* TaskRequest.to_dict
RequestToDict(r) ==
    [type |-> r.type, description |-> r.description, files |-> r.files,
     context |-> r.context, constraints |-> r.constraints,
     output_format |-> r.output_format, priority |-> r.priority,
     callback |-> r.callback, timeout_seconds |-> r.timeout_seconds]

\* the arguments of the submission of tests/test_server.py and their request
DemoArgs == [type |-> "general", description |-> "demo"]
DemoRequest == RequestFromDict(DemoArgs)

\* TaskResult(task_id, status, result, token_usage, duration_seconds, error):
\* files_created and summary at their defaults
TaskResult(t, st, payload, tokens, duration, err) ==
    [task_id |-> t, status |-> st, result |-> payload, files_created |-> <<>>,
     summary |-> None, token_usage |-> tokens, duration_seconds |-> duration,
     error |-> err]

\* TaskRecord(task_id, request, requester_did=...): status PENDING, created now,
\* nothing else set
TaskRecord(t, request, requester_did) ==
    [task_id |-> t, request |-> request, status |-> "pending", created_at |-> "ts",
     started_at |-> None, completed_at |-> None, progress |-> <<>>,
     result |-> NoResult, error |-> None, requester_did |-> requester_did]

\* TaskResult.to_dict
ResultToDict(res) ==
    [task_id |-> res.task_id, status |-> res.status, result |-> res.result,
     files_created |-> res.files_created, summary |-> res.summary,
     token_usage |-> res.token_usage, duration_seconds |-> res.duration_seconds,
     error |-> res.error]

\* TaskRecord.to_dict: the result is serialised only when it is set
ToDict(r) ==
    [task_id |-> r.task_id, request |-> RequestToDict(r.request), status |-> r.status,
     created_at |-> r.created_at, started_at |-> r.started_at,
     completed_at |-> r.completed_at, progress |-> r.progress,
     result |-> IF r.result /= NoResult THEN ResultToDict(r.result) ELSE NoResult,
     error |-> r.error, requester_did |-> r.requester_did]

\* faulty variant: the requester's identity is not read back
FromDict_drops_requester(data) ==
    LET rd == Get(data, "result", NoResult) IN
    [task_id |-> Get(data, "task_id", ""),
     request |-> RequestFromDict(Get(data, "request", EmptyDict)),
     status |-> Get(data, "status", "pending"),
     created_at |-> Get(data, "created_at", "ts"),
     started_at |-> Get(data, "started_at", None),
     completed_at |-> Get(data, "completed_at", None),
     progress |-> Get(data, "progress", <<>>),
     result |-> IF rd /= NoResult
                THEN [task_id |-> Get(rd, "task_id", Get(data, "task_id", "")),
                      status |-> Get(rd, "status", "completed"),
                      result |-> Get(rd, "result", None),
                      files_created |-> Get(rd, "files_created", <<>>),
                      summary |-> Get(rd, "summary", None),
                      token_usage |-> Get(rd, "token_usage", <<>>),
                      duration_seconds |-> Get(rd, "duration_seconds", <<>>),
                      error |-> Get(rd, "error", None)]
                ELSE NoResult,
     error |-> Get(data, "error", None),
     requester_did |-> None]

\* TaskRecord.from_dict: the result is rebuilt only from a dict. The files read
\* here were written by to_dict, so TaskStatus(...) finds a member.
FromDict(data) ==
    LET rd == Get(data, "result", NoResult) IN
    [task_id |-> Get(data, "task_id", ""),
     request |-> RequestFromDict(Get(data, "request", EmptyDict)),
     status |-> Get(data, "status", "pending"),
     created_at |-> Get(data, "created_at", "ts"),
     started_at |-> Get(data, "started_at", None),
     completed_at |-> Get(data, "completed_at", None),
     progress |-> Get(data, "progress", <<>>),
     result |-> IF rd /= NoResult
                THEN [task_id |-> Get(rd, "task_id", Get(data, "task_id", "")),
                      status |-> Get(rd, "status", "completed"),
                      result |-> Get(rd, "result", None),
                      files_created |-> Get(rd, "files_created", <<>>),
                      summary |-> Get(rd, "summary", None),
                      token_usage |-> Get(rd, "token_usage", <<>>),
                      duration_seconds |-> Get(rd, "duration_seconds", <<>>),
                      error |-> Get(rd, "error", None)]
                ELSE NoResult,
     error |-> Get(data, "error", None),
     requester_did |-> Get(data, "requester_did", None)]

\* ------------------------------------------------------------- variables
VARIABLES
    files,        \* files[t][st]: content of <root>/<st>/<t>.json, or NoFile
    tmp,          \* tmp[t][st]: content of <root>/<st>/<t>.json.tmp, or NoFile
    lockHolder,   \* lockHolder[t]: process holding the flock on <root>/<t>.lock, 0 = free
    wpc,          \* wpc[p]: position of writer p inside write_task
    wrec,         \* wrec[p]: the record writer p is persisting
    wretries,     \* wretries[p]: `retries` of the lock loop
    widx,         \* widx[p]: position of the unlink loop in TaskStatus
    wgot,         \* wgot[p]: flock succeeded in this call
    wdone,        \* wdone[p]: the rename of this call has been done
    faults,       \* writer crashes and failed dumps so far
    lastWrite,    \* lastWrite[t]: status of the last completed write_task, None while one is under way or was cut short
    written,      \* written[t]: some write_task for t has completed
    moved,        \* moved[t]: the last completed write_task for t removed a stale copy
    wstale,       \* wstale[p]: this call has unlinked a stale copy
    rop, rtask, rstatus, ridx, rpc, rglob, rres,   \* the reader
    alive,        \* the server process is up (constructed and not died)
    tasks,        \* BaseAgentServer._tasks: tasks[t] is the cached record, or NoRecord
    inflight,     \* inflight[t]: "no", "executing" (awaiting execute_task), "cancel_sent"
    task_futures, \* BaseAgentServer._task_futures: ids with a registered asyncio task
    agents,       \* ResourceTracker.agents[self.name] in memory, or NoAgent
    ledger,       \* the entry of self.name in the ledger file, or NoAgent
    ret,          \* the last tool call that returned: op, task_id, the response
                  \* (value) and what happened inside the call (seen)
    calls,        \* calls[t]: what the submit_task call for t has done so far, in
                  \* order: the status of each record it persisted, "execute" (the
                  \* await of execute_task begins), "ended" (it ends)
    mover,        \* the process inside move_task: its position and arguments
    tracker,      \* ResourceTracker.agents of a tracker: name -> AgentResources or NoAgent
    state_file,   \* the ledger file at ResourceTracker.state_path, or NoFile
    best,         \* the last best_agent_for call: arguments and return value
    request,      \* a TaskRequest and what from_dict(to_dict()) made of it
    roundtrip,    \* the last write_task record and what load_task / load_all returned
    probe,        \* the last is_exhausted read: the two counters and the answer
    perf,         \* hexswarm_agent_performance: how many rows of each content it holds
    pick,         \* the last get_best_agent_for_task call: arguments and return value
    trackers      \* two server processes over one ledger file: self.agents of each

storeVars == <<files, tmp, lockHolder, wpc, wrec, wretries, widx, wgot, wdone,
               faults, lastWrite, written, moved, wstale, rop, rtask, rstatus, ridx, rpc, rglob, rres>>

serverVars == <<alive, tasks, inflight, task_futures, agents, ledger, ret, calls>>

perfVars == <<perf, pick>>

extraVars == <<trackers>>

tailVars == <<probe, perfVars, extraVars>>

restVars == <<mover, tracker, state_file, best, request, roundtrip, tailVars>>

vars == <<storeVars, serverVars, restVars>>

\* ------------------------------------------------------------ filesystem
EmptyDirs(T) == [t \in T |-> [st \in Statuses |-> NoFile]]

\* TaskStorage._path_for(...).exists()
Exists(fs, t, st) == fs[t][st] /= NoFile

\* faulty variant: the stale copy is left in place
Unlink_noop(fs, t, st) == fs

\* old_path.unlink()
Unlink(fs, t, st) == [fs EXCEPT ![t][st] = NoFile]

\* json.loads(path.read_text()) then TaskRecord.from_dict
Parse(content) ==
    IF content = Partial THEN [error |-> "JSONDecodeError"] ELSE FromDict(content)

\* the records a caller hands to write_task: one per lifecycle position
SampleRecords(t) ==
    LET r0 == TaskRecord(t, DemoRequest, None)
        r1 == [r0 EXCEPT !.status = "running", !.started_at = "ts"]
    IN  { r0, r1,
          [r1 EXCEPT !.status = "completed", !.completed_at = "ts",
                     !.result = TaskResult(t, "completed", "ok", <<0>>, <<0>>, None)],
          [r1 EXCEPT !.status = "failed", !.completed_at = "ts", !.error = "boom",
                     !.result = TaskResult(t, "failed", None, <<>>, <<>>, "boom")],
          [r1 EXCEPT !.status = "cancelled", !.completed_at = "ts", !.error = "cancelled"] }

\* what the reader's last call gave: kind is "unset" (none yet), "none" (load_task
\* returned None), "record", "map" (load_all, list_by_status) or "error"
NoResponse == [kind |-> "unset", err |-> None, rec |-> NoRecord,
               map |-> [t \in Tasks |-> NoRecord]]


\* a fresh storage root with its five empty status directories, TaskStorage
\* constructed over it, no call under way
StoreInit(T) ==
    /\ files = EmptyDirs(T)
    /\ tmp = EmptyDirs(T)
    /\ lockHolder = [t \in T |-> 0]
    /\ wpc = [p \in Writers |-> "idle"]
    /\ wrec = [p \in Writers |-> NoRecord]
    /\ wretries = [p \in Writers |-> 0]
    /\ widx = [p \in Writers |-> 0]
    /\ wgot = [p \in Writers |-> FALSE]
    /\ wdone = [p \in Writers |-> FALSE]
    /\ faults = 0
    /\ lastWrite = [t \in Tasks |-> None]
    /\ written = [t \in Tasks |-> FALSE]
    /\ moved = [t \in Tasks |-> FALSE]
    /\ wstale = [p \in Writers |-> FALSE]
    /\ rop = "idle" /\ rtask = 0 /\ rstatus = None /\ ridx = 0 /\ rpc = "idle"
    /\ rglob = {} /\ rres = NoResponse

\* BaseAgentServer.__init__ over the empty store, no ledger file yet
ServerInit(T) ==
    /\ alive = TRUE
    /\ tasks = [t \in T |-> NoRecord]
    /\ inflight = [t \in T |-> "no"]
    /\ task_futures = {}
    /\ agents = NoAgent
    /\ ledger = NoAgent
    /\ ret = [op |-> None, task_id |-> 0, value |-> NoResp, seen |-> {}]
    /\ calls = [t \in T |-> <<>>]

\* no move_task under way, no tracker beside the server's, nothing converted or
\* loaded yet
MoverIdle == [pc |-> "idle", task_id |-> 0, old |-> None, new |-> None]
NoBest == [task_type |-> None, exclude |-> {}, value |-> None]
NoRequest == [r |-> NoResp, back |-> NoResp]
NoLoad == [rec |-> NoRecord, one |-> NoResp, all |-> NoResp, ids |-> {}, fresh |-> FALSE]
NoProbe == [context_used |-> <<>>, context_limit |-> <<>>, is_exhausted |-> FALSE]
\* The rows hexswarm_agent_performance can hold here (id, ts, tokens_used and
\* source left out): samples of code tasks, failed or not, of 1 or 3 seconds,
\* and successful samples of general tasks
PerfAgents == {"codex", "gemini"}
PerfDurations == {1, 3}
PerfRows ==
    {[agent_name |-> a, task_type |-> "code", success |-> ok, duration_seconds |-> d] :
        a \in PerfAgents, ok \in BOOLEAN, d \in PerfDurations}
    \cup {[agent_name |-> a, task_type |-> "general", success |-> TRUE,
           duration_seconds |-> 1] : a \in PerfAgents}

\* the empty table, and no get_best_agent_for_task call yet
EmptyPerf == [r \in PerfRows |-> 0]
NoPick == [task_type |-> None, available_agents |-> <<>>, value |-> None]

TailInit ==
    /\ probe = NoProbe
    /\ perf = EmptyPerf
    /\ pick = NoPick
    /\ trackers = [p \in {"codex", "gemini"} |-> [n \in {"codex", "gemini"} |-> NoAgent]]

RestInit ==
    /\ mover = MoverIdle
    /\ tracker = NoAgent
    /\ state_file = NoFile
    /\ best = NoBest
    /\ request = NoRequest
    /\ roundtrip = NoLoad
    /\ TailInit

Init == StoreInit(Tasks) /\ ServerInit(Tasks) /\ RestInit

readerVars == <<rop, rtask, rstatus, ridx, rpc, rglob, rres>>
ghostVars == <<lastWrite, written, moved, wstale>>

\* ------------------------------------------------- write_task, step by step
\* lines 28-33: open the lock file, retries = 10
write_task_begin(p) ==
    /\ wpc[p] = "idle"
    /\ \E t \in Tasks : \E rec \in SampleRecords(t) :
          wrec' = [wrec EXCEPT ![p] = rec]
    /\ wpc' = [wpc EXCEPT ![p] = "flock"]
    /\ wretries' = [wretries EXCEPT ![p] = LockRetries]
    /\ wgot' = [wgot EXCEPT ![p] = FALSE]
    /\ wdone' = [wdone EXCEPT ![p] = FALSE]
    /\ UNCHANGED <<files, tmp, lockHolder, widx, faults, ghostVars, readerVars, serverVars, restVars>>

\* faulty variant: the tenth failed attempt leaves the loop without raising
write_task_flock_falls_through(p) ==
    /\ wpc[p] = "flock"
    /\ LET t == wrec[p].task_id IN
       IF lockHolder[t] = 0
       THEN /\ lockHolder' = [lockHolder EXCEPT ![t] = p]
            /\ wgot' = [wgot EXCEPT ![p] = TRUE]
            /\ wpc' = [wpc EXCEPT ![p] = "unlink"]
            /\ widx' = [widx EXCEPT ![p] = 1]
            /\ lastWrite' = [lastWrite EXCEPT ![t] = None]
            /\ wretries' = [wretries EXCEPT ![p] = 0]
       ELSE /\ wretries' = [wretries EXCEPT ![p] = @ - 1]
            /\ wpc' = [wpc EXCEPT ![p] = IF wretries[p] - 1 = 0 THEN "unlink" ELSE "flock"]
            /\ widx' = [widx EXCEPT ![p] = IF wretries[p] - 1 = 0 THEN 1 ELSE @]
            /\ UNCHANGED <<lockHolder, wgot, lastWrite>>
    /\ UNCHANGED <<files, tmp, wrec, wdone, faults, written, moved, wstale, readerVars, serverVars, restVars>>

\* lines 34-42: one pass of the lock loop, flock(LOCK_EX | LOCK_NB)
write_task_flock(p) ==
    /\ wpc[p] = "flock"
    /\ LET t == wrec[p].task_id IN
       IF lockHolder[t] = 0
       THEN /\ lockHolder' = [lockHolder EXCEPT ![t] = p]
            /\ wgot' = [wgot EXCEPT ![p] = TRUE]
            /\ wpc' = [wpc EXCEPT ![p] = "unlink"]
            /\ widx' = [widx EXCEPT ![p] = 1]
            /\ lastWrite' = [lastWrite EXCEPT ![t] = None]
            /\ wretries' = [wretries EXCEPT ![p] = 0]   \* not read again
       ELSE /\ wretries' = [wretries EXCEPT ![p] = @ - 1]
            /\ wpc' = [wpc EXCEPT ![p] = IF wretries[p] - 1 = 0 THEN "finally" ELSE "flock"]
            /\ UNCHANGED <<lockHolder, wgot, widx, lastWrite>>
    /\ UNCHANGED <<files, tmp, wrec, wdone, faults, written, moved, wstale, readerVars, serverVars, restVars>>

\* faulty variant: the loop of lines 45-49 leaves the last status directory out
write_task_unlink_short(p) ==
    /\ wpc[p] = "unlink"
    /\ LET t == wrec[p].task_id
           st == TaskStatus[widx[p]]
           stale == st /= wrec[p].status /\ Exists(files, t, st) /\ widx[p] < Len(TaskStatus)
       IN  /\ files' = IF stale THEN Unlink(files, t, st) ELSE files
           /\ wstale' = [wstale EXCEPT ![p] = @ \/ stale]
           /\ IF widx[p] = Len(TaskStatus)
              THEN /\ wpc' = [wpc EXCEPT ![p] = "open_tmp"]
                   /\ widx' = [widx EXCEPT ![p] = 0]
              ELSE /\ widx' = [widx EXCEPT ![p] = @ + 1]
                   /\ UNCHANGED wpc
    /\ UNCHANGED <<tmp, lockHolder, wrec, wretries, wgot, wdone, faults, lastWrite,
                   written, moved, readerVars, serverVars, restVars>>

\* lines 45-49: one pass of `for status in TaskStatus`
write_task_unlink(p) ==
    /\ wpc[p] = "unlink"
    /\ LET t == wrec[p].task_id
           st == TaskStatus[widx[p]]
           stale == st /= wrec[p].status /\ Exists(files, t, st)
       IN  /\ files' = IF stale THEN Unlink(files, t, st) ELSE files
           /\ wstale' = [wstale EXCEPT ![p] = @ \/ stale]
           /\ IF widx[p] = Len(TaskStatus)
              THEN /\ wpc' = [wpc EXCEPT ![p] = "open_tmp"]
                   /\ widx' = [widx EXCEPT ![p] = 0]
              ELSE /\ widx' = [widx EXCEPT ![p] = @ + 1]
                   /\ UNCHANGED wpc
    /\ UNCHANGED <<tmp, lockHolder, wrec, wretries, wgot, wdone, faults, lastWrite,
                   written, moved, readerVars, serverVars, restVars>>

\* line 55: open(tmp_path, "w") creates or truncates the temporary file
write_task_open_tmp(p) ==
    /\ wpc[p] = "open_tmp"
    /\ tmp' = [tmp EXCEPT ![wrec[p].task_id][wrec[p].status] = Partial]
    /\ wpc' = [wpc EXCEPT ![p] = "dump"]
    /\ UNCHANGED <<files, lockHolder, wrec, wretries, widx, wgot, wdone, faults, ghostVars, readerVars, serverVars, restVars>>

\* lines 56-58: json.dump, flush, fsync: the temporary file holds the whole record
write_task_dump(p) ==
    /\ wpc[p] = "dump"
    /\ tmp' = [tmp EXCEPT ![wrec[p].task_id][wrec[p].status] = ToDict(wrec[p])]
    /\ wpc' = [wpc EXCEPT ![p] = "replace"]
    /\ UNCHANGED <<files, lockHolder, wrec, wretries, widx, wgot, wdone, faults, ghostVars, readerVars, serverVars, restVars>>

\* faulty variant: the rename sits in the finally block: it runs after a failed dump too
write_task_dump_fails_renames(p) ==
    /\ wpc[p] = "dump"
    /\ faults < MaxFaults
    /\ faults' = faults + 1
    /\ LET t == wrec[p].task_id
           st == wrec[p].status
       IN  /\ files' = [files EXCEPT ![t][st] = tmp[t][st]]
           /\ tmp' = [tmp EXCEPT ![t][st] = NoFile]
    /\ wpc' = [wpc EXCEPT ![p] = "finally"]
    /\ UNCHANGED <<lockHolder, wrec, wretries, widx, wgot, wdone, ghostVars, readerVars, serverVars, restVars>>

\* lines 55-58 raising (disk full, I/O error): the with-block is left, the
\* temporary file stays as far as it was written, control goes to finally
write_task_dump_fails(p) ==
    /\ wpc[p] = "dump"
    /\ faults < MaxFaults
    /\ faults' = faults + 1
    /\ wpc' = [wpc EXCEPT ![p] = "finally"]
    /\ UNCHANGED <<files, tmp, lockHolder, wrec, wretries, widx, wgot, wdone, ghostVars, readerVars, serverVars, restVars>>

\* line 60: tmp_path.replace(path)
write_task_replace(p) ==
    /\ wpc[p] = "replace"
    /\ LET t == wrec[p].task_id
           st == wrec[p].status
       IN  /\ files' = [files EXCEPT ![t][st] = tmp[t][st]]
           /\ tmp' = [tmp EXCEPT ![t][st] = NoFile]
    /\ wdone' = [wdone EXCEPT ![p] = TRUE]
    /\ wpc' = [wpc EXCEPT ![p] = "finally"]
    /\ UNCHANGED <<lockHolder, wrec, wretries, widx, wgot, faults, ghostVars, readerVars, serverVars, restVars>>

\* faulty variant: the unlock drops the task's lock whoever holds it
write_task_finally_any(p) ==
    /\ wpc[p] = "finally"
    /\ LET t == wrec[p].task_id IN
       /\ lockHolder' = [lockHolder EXCEPT ![t] = 0]
       /\ lastWrite' = IF wdone[p] THEN [lastWrite EXCEPT ![t] = wrec[p].status]
                       ELSE lastWrite
       /\ written' = IF wdone[p] THEN [written EXCEPT ![t] = TRUE] ELSE written
       /\ moved' = IF wdone[p] THEN [moved EXCEPT ![t] = wstale[p]] ELSE moved
    /\ wstale' = [wstale EXCEPT ![p] = FALSE]
    /\ wpc' = [wpc EXCEPT ![p] = "idle"]
    /\ wrec' = [wrec EXCEPT ![p] = NoRecord]
    /\ wgot' = [wgot EXCEPT ![p] = FALSE]
    /\ wdone' = [wdone EXCEPT ![p] = FALSE]
    /\ wretries' = [wretries EXCEPT ![p] = 0]
    /\ UNCHANGED <<files, tmp, widx, faults, readerVars, serverVars, restVars>>

\* lines 61-66: flock(LOCK_UN) on the caller's own descriptor, close
write_task_finally(p) ==
    /\ wpc[p] = "finally"
    /\ LET t == wrec[p].task_id IN
       /\ lockHolder' = IF lockHolder[t] = p THEN [lockHolder EXCEPT ![t] = 0]
                        ELSE lockHolder
       /\ lastWrite' = IF wdone[p] THEN [lastWrite EXCEPT ![t] = wrec[p].status]
                       ELSE lastWrite
       /\ written' = IF wdone[p] THEN [written EXCEPT ![t] = TRUE] ELSE written
       /\ moved' = IF wdone[p] THEN [moved EXCEPT ![t] = wstale[p]] ELSE moved
    /\ wstale' = [wstale EXCEPT ![p] = FALSE]
    /\ wpc' = [wpc EXCEPT ![p] = "idle"]
    /\ wrec' = [wrec EXCEPT ![p] = NoRecord]
    /\ wgot' = [wgot EXCEPT ![p] = FALSE]
    /\ wdone' = [wdone EXCEPT ![p] = FALSE]
    /\ wretries' = [wretries EXCEPT ![p] = 0]
    /\ UNCHANGED <<files, tmp, widx, faults, readerVars, serverVars, restVars>>

\* the writer's process dies inside write_task: the kernel drops its flock,
\* the files stay as they are
writer_crash(p) ==
    /\ wpc[p] \notin {"idle"}
    /\ faults < MaxFaults
    /\ faults' = faults + 1
    /\ lockHolder' = [t \in Tasks |-> IF lockHolder[t] = p THEN 0 ELSE lockHolder[t]]
    /\ wpc' = [wpc EXCEPT ![p] = "idle"]
    /\ wrec' = [wrec EXCEPT ![p] = NoRecord]
    /\ wgot' = [wgot EXCEPT ![p] = FALSE]
    /\ wdone' = [wdone EXCEPT ![p] = FALSE]
    /\ wretries' = [wretries EXCEPT ![p] = 0]
    /\ widx' = [widx EXCEPT ![p] = 0]
    /\ wstale' = [wstale EXCEPT ![p] = FALSE]
    /\ UNCHANGED <<files, tmp, lastWrite, written, moved, readerVars, serverVars, restVars>>

\* ------------------------------------------------------ readers (unlocked)
writerVars == <<lockHolder, wpc, wrec, wretries, widx, wgot, wdone, faults, ghostVars>>

ReaderReturn(res) ==
    /\ rres' = res
    /\ rop' = "idle" /\ rpc' = "idle" /\ rtask' = 0 /\ rstatus' = None
    /\ ridx' = 0 /\ rglob' = {}

\* path.read_text() then json.loads: what one read of <st>/<t>.json gives
ReadFile(fs, t, st) ==
    IF ~Exists(fs, t, st) THEN [error |-> "FileNotFoundError"] ELSE Parse(fs[t][st])

\* load_task(task_id) is called
load_task_begin(t) ==
    /\ rop = "idle"
    /\ rop' = "load_task" /\ rtask' = t /\ ridx' = 1 /\ rpc' = "exists"
    /\ rres' = NoResponse
    /\ UNCHANGED <<files, tmp, writerVars, serverVars, restVars, rstatus, rglob>>

\* line 75-77: `if path.exists()` for the next status; line 79 after the last
load_task_exists ==
    /\ rop = "load_task" /\ rpc = "exists"
    /\ IF Exists(files, rtask, TaskStatus[ridx])
       THEN rpc' = "read" /\ UNCHANGED <<rop, rtask, rstatus, ridx, rglob, rres>>
       ELSE IF ridx = Len(TaskStatus)
            THEN ReaderReturn([NoResponse EXCEPT !.kind = "none"])
            ELSE ridx' = ridx + 1 /\ UNCHANGED <<rop, rtask, rstatus, rpc, rglob, rres>>
    /\ UNCHANGED <<files, tmp, writerVars, serverVars, restVars>>

\* line 78: read and parse the file found
load_task_read ==
    /\ rop = "load_task" /\ rpc = "read"
    /\ LET got == ReadFile(files, rtask, TaskStatus[ridx]) IN
       IF IsError(got) THEN ReaderReturn([NoResponse EXCEPT !.kind = "error", !.err = got.error])
       ELSE ReaderReturn([NoResponse EXCEPT !.kind = "record", !.rec = got])
    /\ UNCHANGED <<files, tmp, writerVars, serverVars, restVars>>

\* load_all() is called
load_all_begin ==
    /\ rop = "idle"
    /\ rop' = "load_all" /\ ridx' = 1 /\ rpc' = "glob"
    /\ rres' = NoResponse
    /\ UNCHANGED <<files, tmp, writerVars, serverVars, restVars, rtask, rstatus, rglob>>

\* list_by_status(status) is called
list_by_status_begin(st) ==
    /\ rop = "idle"
    /\ rop' = "list_by_status" /\ rstatus' = st /\ rpc' = "glob"
    /\ rres' = NoResponse
    /\ UNCHANGED <<files, tmp, writerVars, serverVars, restVars, rtask, ridx, rglob>>

\* status_dir.glob("*.json"): the names ending in .json now in the directory
\* (a <task_id>.json.tmp does not match)
Glob(fs, st) == {t \in Tasks : Exists(fs, t, st)}

dir_glob ==
    /\ rop \in {"load_all", "list_by_status"} /\ rpc = "glob"
    /\ rglob' = Glob(files, IF rop = "load_all" THEN TaskStatus[ridx] ELSE rstatus)
    /\ rpc' = "read"
    /\ UNCHANGED <<files, tmp, writerVars, serverVars, restVars, rop, rtask, rstatus, ridx, rres>>

\* lines 85-87 and 92-93: read the next globbed path, or go on when none is left
dir_read ==
    /\ rop \in {"load_all", "list_by_status"} /\ rpc = "read"
    /\ LET st == IF rop = "load_all" THEN TaskStatus[ridx] ELSE rstatus IN
       IF rglob = {}
       THEN IF rop = "load_all" /\ ridx < Len(TaskStatus)
            THEN /\ ridx' = ridx + 1 /\ rpc' = "glob"
                 /\ UNCHANGED <<rop, rtask, rstatus, rglob, rres>>
            ELSE ReaderReturn([rres EXCEPT !.kind = "map"])
       ELSE \E t \in rglob :
              LET got == ReadFile(files, t, st) IN
              IF IsError(got) THEN ReaderReturn([NoResponse EXCEPT !.kind = "error", !.err = got.error])
              ELSE /\ rres' = [rres EXCEPT !.map[got.task_id] = got]
                   /\ rglob' = rglob \ {t}
                   /\ UNCHANGED <<rop, rtask, rstatus, ridx, rpc>>
    /\ UNCHANGED <<files, tmp, writerVars, serverVars, restVars>>


\* =========================================================================
\* The server: BaseAgentServer over the store. A handler runs without
\* interruption (asyncio, blocking storage calls) up to `await execute_task`.
\* =========================================================================
STasks == 1..SrvTasks
\* another process sharing the storage root, inside write_task for a task
Foreign == CHOOSE p \in Writers : TRUE

storeLocal == <<tmp, wpc, wrec, wretries, widx, wgot, wdone, faults, ghostVars, readerVars>>

\* lines 45-49 run to the end: every stale copy is unlinked
RECURSIVE RemoveStale(_, _, _)
RemoveStale(fs, rec, i) ==
    IF i > Len(TaskStatus) THEN fs
    ELSE LET st == TaskStatus[i] IN
         RemoveStale(IF st /= rec.status /\ Exists(fs, rec.task_id, st)
                     THEN Unlink(fs, rec.task_id, st) ELSE fs,
                     rec, i + 1)

\* write_task with the lock obtained and nothing cutting it short: lines 45-60
WriteTask(fs, rec) ==
    [RemoveStale(fs, rec, 1) EXCEPT ![rec.task_id][rec.status] = ToDict(rec)]

RECURSIVE WriteAll(_, _, _)
\* write_task for each task of `todo`, recs[t] being the record
WriteAll(fs, recs, todo) ==
    IF todo = {} THEN fs
    ELSE LET t == CHOOSE x \in todo : TRUE IN
         WriteAll(WriteTask(fs, recs[t]), recs, todo \ {t})

\* load_task run to the end: the first status directory holding the file
LoadTask(fs, t) ==
    IF \E i \in 1..Len(TaskStatus) : Exists(fs, t, TaskStatus[i])
    THEN LET i == CHOOSE j \in 1..Len(TaskStatus) :
                    /\ Exists(fs, t, TaskStatus[j])
                    /\ \A k \in 1..(j - 1) : ~Exists(fs, t, TaskStatus[k])
         IN  Parse(fs[t][TaskStatus[i]])
    ELSE NoRecord

\* load_all run to the end: a later status directory overwrites an earlier one
LoadAll(fs) ==
    [t \in DOMAIN fs |->
        IF \E i \in 1..Len(TaskStatus) : Exists(fs, t, TaskStatus[i])
        THEN LET i == CHOOSE j \in 1..Len(TaskStatus) :
                        /\ Exists(fs, t, TaskStatus[j])
                        /\ \A k \in (j + 1)..Len(TaskStatus) : ~Exists(fs, t, TaskStatus[k])
             IN  Parse(fs[t][TaskStatus[i]])
        ELSE NoRecord]

\* ------------------------------------------------- binary64 arithmetic
\* A positive float is [e, m]: m = <<m1, m2, m3>> holds the 53 bits of the
\* significand as limbs of 17, 18 and 18 bits (first bit 1), the value is
\* (m1 * 2^36 + m2 * 2^18 + m3) * 2^(e - 52). Zero has an all-zero significand.
\* The operands here stay below 2^21, so no step leaves 32 bits.
Limb == 2^18
HalfLimb == 2^9
TopBit == 2^16

FloatZero == [e |-> 0, m |-> <<0, 0, 0>>]

\* u / l brought into [1, 2) by doubling one side: the exponent and the scaled pair
RECURSIVE Scale(_, _, _)
Scale(u, l, e) ==
    IF u >= 2 * l THEN Scale(u, 2 * l, e + 1)
    ELSE IF u < l THEN Scale(2 * u, l, e - 1)
    ELSE [n |-> u, d |-> l, e |-> e]

\* round to nearest, ties to even: `guard` is the first bit cut off, `sticky`
\* says that a later one was set
Round(e, m, guard, sticky) ==
    IF guard = 1 /\ (sticky \/ m[3] % 2 = 1)
    THEN IF m[3] + 1 < Limb THEN [e |-> e, m |-> <<m[1], m[2], m[3] + 1>>]
         ELSE IF m[2] + 1 < Limb THEN [e |-> e, m |-> <<m[1], m[2] + 1, 0>>]
         ELSE IF m[1] + 1 < 2 * TopBit THEN [e |-> e, m |-> <<m[1] + 1, 0, 0>>]
         ELSE [e |-> e + 1, m |-> <<TopBit, 0, 0>>]
    ELSE [e |-> e, m |-> m]

\* u / l for integers u >= 0, l > 0: long division, 8 bits and then five times
\* 9 bits of the quotient, the next bit and the remainder for the rounding
FloatDiv(u, l) ==
    IF u = 0 THEN FloatZero
    ELSE LET s == Scale(u, l, 0)
             d == s.d
             q1 == (s.n * (HalfLimb \div 4)) \div d
             r1 == (s.n * (HalfLimb \div 4)) % d
             q2 == (r1 * HalfLimb) \div d
             r2 == (r1 * HalfLimb) % d
             q3 == (r2 * HalfLimb) \div d
             r3 == (r2 * HalfLimb) % d
             q4 == (r3 * HalfLimb) \div d
             r4 == (r3 * HalfLimb) % d
             q5 == (r4 * HalfLimb) \div d
             r5 == (r4 * HalfLimb) % d
             q6 == (r5 * HalfLimb) \div d
             r6 == (r5 * HalfLimb) % d
         IN  Round(s.e, <<q1 * HalfLimb + q2, q3 * HalfLimb + q4, q5 * HalfLimb + q6>>,
                   (2 * r6) \div d, (2 * r6) % d /= 0)

\* how many bits n has
RECURSIVE BitLen(_)
BitLen(n) == IF n = 0 THEN 0 ELSE 1 + BitLen(n \div 2)

\* x * k for a float x and an integer 2 <= k < 2^13: the exact product limb by
\* limb, then the first 53 bits of it, rounded
FloatMul(x, k) ==
    IF x = FloatZero THEN FloatZero
    ELSE LET p3 == x.m[3] * k
             p2 == x.m[2] * k + p3 \div Limb
             p1 == x.m[1] * k + p2 \div Limb
             lo == p3 % Limb
             mid == p2 % Limb
             cut == BitLen(p1) - 17
             c == 2^cut
             up == Limb \div c
             dropped == lo % c
         IN  Round(x.e + cut,
                   <<p1 \div c, (p1 % c) * up + mid \div c, (mid % c) * up + lo \div c>>,
                   dropped \div (c \div 2), dropped % (c \div 2) /= 0)

\* x > y for floats that are zero or positive
FloatGt(x, y) ==
    IF x = FloatZero THEN FALSE
    ELSE IF y = FloatZero THEN TRUE
    ELSE \/ x.e > y.e
         \/ /\ x.e = y.e
            /\ \/ x.m[1] > y.m[1]
               \/ x.m[1] = y.m[1] /\ x.m[2] > y.m[2]
               \/ x.m[1] = y.m[1] /\ x.m[2] = y.m[2] /\ x.m[3] > y.m[3]

\* A counter of up to 52 bits, more than an integer here can hold, is
\* <<w1, w2, w3>> with the value w1 * 2^36 + w2 * 2^18 + w3 and w2, w3 < 2^18
Wide(n) == <<0, n \div Limb, n % Limb>>
WideZero == <<0, 0, 0>>

\* x >= y, 2 * x, x - y (for x >= y) and x + j (for a small j) on such counters
WideGeq(x, y) ==
    \/ x[1] > y[1]
    \/ x[1] = y[1] /\ (x[2] > y[2] \/ (x[2] = y[2] /\ x[3] >= y[3]))

WideDouble(x) ==
    LET c2 == 2 * x[2] + (2 * x[3]) \div Limb
    IN  <<2 * x[1] + c2 \div Limb, c2 % Limb, (2 * x[3]) % Limb>>

WideSub(x, y) ==
    LET b3 == IF x[3] < y[3] THEN 1 ELSE 0
        b2 == IF x[2] - b3 < y[2] THEN 1 ELSE 0
    IN  <<x[1] - y[1] - b2, x[2] - b3 - y[2] + b2 * Limb, x[3] - y[3] + b3 * Limb>>

WideAdd(x, j) ==
    LET c2 == x[2] + (x[3] + j) \div Limb
    IN  <<x[1] + c2 \div Limb, c2 % Limb, (x[3] + j) % Limb>>

\* u / l brought into [1, 2) as in Scale
RECURSIVE WideScale(_, _, _)
WideScale(u, l, e) ==
    IF WideGeq(u, WideDouble(l)) THEN WideScale(u, WideDouble(l), e + 1)
    ELSE IF ~WideGeq(u, l) THEN WideScale(WideDouble(u), l, e - 1)
    ELSE [n |-> u, d |-> l, e |-> e]

\* the quotient bit by bit until q has its 53 bits; r is then twice the remainder
RECURSIVE Quotient(_, _, _)
Quotient(r, d, q) ==
    IF q[1] >= TopBit THEN [q |-> q, r |-> r]
    ELSE IF WideGeq(r, d)
    THEN Quotient(WideDouble(WideSub(r, d)), d,
                  <<WideDouble(q)[1], WideDouble(q)[2], WideDouble(q)[3] + 1>>)
    ELSE Quotient(WideDouble(r), d, WideDouble(q))

\* u / l for counters u >= 0, l > 0 below 2^52: the float FloatDiv gives where
\* both apply
WideDiv(u, l) ==
    IF u = WideZero THEN FloatZero
    ELSE LET s == WideScale(u, l, 0)
             b == Quotient(s.n, s.d, WideZero)
         IN  IF WideGeq(b.r, s.d)
             THEN Round(s.e, b.q, 1, WideSub(b.r, s.d) /= WideZero)
             ELSE Round(s.e, b.q, 0, b.r /= WideZero)

\* ---------------------------------------------------------- resource ledger
\* the default context limits, and the limit of a name outside the table
AGENT_CONTEXT_LIMITS == [codex |-> 128000, gemini |-> 1000000, hex |-> 200000]
DefaultLimit(name) ==
    IF name \in DOMAIN AGENT_CONTEXT_LIMITS THEN AGENT_CONTEXT_LIMITS[name] ELSE 100000

\* AgentResources(name, context_limit): every counter 0, no budget. The two
\* cost fields are floats in the code and whole dollars here.
AgentResources(name, context_limit) ==
    [name |-> name, context_limit |-> context_limit, context_used |-> 0,
     tokens_used_session |-> 0, tasks_completed |-> 0, tasks_failed |-> 0,
     last_task_at |-> None, last_error |-> None,
     token_budget |-> 0, cost_budget_usd |-> 0, cost_used_usd |-> 0]

\* the name of the server of tests/test_server.py
ServerName == "dummy"

\* ResourceTracker.get_agent for the server's own entry, made on first use
GetAgent(a) ==
    IF a = NoAgent THEN AgentResources(ServerName, DefaultLimit(ServerName)) ELSE a

\* context_remaining
ContextRemaining(a) ==
    IF a.context_limit - a.context_used > 0 THEN a.context_limit - a.context_used ELSE 0

\* context_percent_used: (context_used / context_limit) * 100 in floats
ContextPercentUsed(a) ==
    IF a.context_limit = 0 THEN FloatZero
    ELSE FloatMul(FloatDiv(a.context_used, a.context_limit), 100)

\* is_exhausted
IsExhausted(a) == FloatGt(ContextPercentUsed(a), FloatDiv(90, 1))

\* is_budget_exhausted
IsBudgetExhausted(a) ==
    IF a.token_budget > 0 /\ a.tokens_used_session >= a.token_budget THEN TRUE
    ELSE IF a.cost_budget_usd > 0 /\ a.cost_used_usd >= a.cost_budget_usd THEN TRUE
    ELSE FALSE

\* can_accept_task
CanAcceptTask(a) == ~IsExhausted(a) /\ ~IsBudgetExhausted(a)

\* context_percent_used and is_exhausted of an entry whose two counters are
\* up to 52 bits wide
ContextPercentUsedWide(context_used, context_limit) ==
    IF context_limit = WideZero THEN FloatZero
    ELSE FloatMul(WideDiv(context_used, context_limit), 100)

IsExhaustedWide(context_used, context_limit) ==
    FloatGt(ContextPercentUsedWide(context_used, context_limit), FloatDiv(90, 1))

\* faulty variant: record_task books every task as a success
RecordTask_always_success(a, tokens_used, success, error) ==
    [a EXCEPT !.tokens_used_session = @ + tokens_used,
              !.context_used = @ + tokens_used,
              !.last_task_at = "ts",
              !.tasks_completed = @ + 1]

\* AgentResources.record_task; time.time() reads "ts"
RecordTask(a, tokens_used, success, error) ==
    [a EXCEPT !.tokens_used_session = @ + tokens_used,
              !.context_used = @ + tokens_used,
              !.last_task_at = "ts",
              !.tasks_completed = IF success THEN @ + 1 ELSE @,
              !.tasks_failed = IF success THEN @ ELSE @ + 1,
              !.last_error = IF success THEN @ ELSE error]

\* faulty variant: the reported token usage is not passed on
TokensOf_zero(res) == 0

\* `result.token_usage or 0`
TokensOf(res) == IF res.token_usage = <<>> THEN 0 ELSE res.token_usage[1]

\* ------------------------------------------------------- ResourceTracker
\* The agents a tracker is asked about here; self.agents with no entry
AgentNames == {"codex", "gemini"}
NoTracker == [n \in AgentNames |-> NoAgent]

\* ResourceTracker.get_agent: the entry is made on first use, with the default
\* limit of its name
EnsureAgent(tr, name) ==
    IF tr[name] = NoAgent
    THEN [tr EXCEPT ![name] = AgentResources(name, DefaultLimit(name))]
    ELSE tr

\* AgentResources.to_dict. The key context_percent_used (the percentage rounded
\* to one decimal), which nothing reads back, is left out.
AgentToDict(a) ==
    [name |-> a.name, context_limit |-> a.context_limit, context_used |-> a.context_used,
     context_remaining |-> ContextRemaining(a),
     tokens_used_session |-> a.tokens_used_session,
     tasks_completed |-> a.tasks_completed, tasks_failed |-> a.tasks_failed,
     is_exhausted |-> IsExhausted(a), can_accept_task |-> CanAcceptTask(a),
     last_task_at |-> a.last_task_at, last_error |-> a.last_error]

\* ResourceTracker._save: what is written to state_path
SaveData(tr) ==
    [agents |-> [n \in {m \in AgentNames : tr[m] /= NoAgent} |-> AgentToDict(tr[n])],
     updated_at |-> "ts"]

\* ResourceTracker.__init__ and _load: the entries of the file, none without a file
LoadAgents(file) ==
    IF file = NoFile THEN NoTracker
    ELSE [n \in AgentNames |->
            IF n \in DOMAIN Get(file, "agents", EmptyDict)
            THEN LET agent_data == file.agents[n] IN
                 [AgentResources(n, Get(agent_data, "context_limit", DefaultLimit(n)))
                    EXCEPT !.context_used = Get(agent_data, "context_used", 0),
                           !.tokens_used_session = Get(agent_data, "tokens_used_session", 0),
                           !.tasks_completed = Get(agent_data, "tasks_completed", 0),
                           !.tasks_failed = Get(agent_data, "tasks_failed", 0),
                           !.last_task_at = Get(agent_data, "last_task_at", None),
                           !.last_error = Get(agent_data, "last_error", None)]
            ELSE NoAgent]

\* faulty variant: the task is booked on every agent of the tracker
TrackerRecordTask_books_all(tr, name, tokens_used, success, error) ==
    [n \in AgentNames |->
        IF EnsureAgent(tr, name)[n] = NoAgent THEN NoAgent
        ELSE RecordTask(EnsureAgent(tr, name)[n], tokens_used, success, error)]

\* ResourceTracker.record_task, lines 149-150: self.agents afterwards
TrackerRecordTask(tr, name, tokens_used, success, error) ==
    [EnsureAgent(tr, name) EXCEPT ![name] = RecordTask(@, tokens_used, success, error)]

\* the capability table of best_agent_for, in the order the loop visits it
Capabilities ==
    << [name |-> "codex", caps |-> {"code", "analysis"}],
       [name |-> "gemini", caps |-> {"research", "analysis", "general"}] >>

\* lines 165-174: the loop over the table from entry i on; get_agent makes the
\* entry of every capable agent that is not excluded
RECURSIVE Scan(_, _, _, _, _)
Scan(tr, i, task_type, exclude, candidates) ==
    IF i > Len(Capabilities) THEN [agents |-> tr, candidates |-> candidates]
    ELSE LET name == Capabilities[i].name IN
         IF name \in exclude \/ task_type \notin Capabilities[i].caps
         THEN Scan(tr, i + 1, task_type, exclude, candidates)
         ELSE IF CanAcceptTask(EnsureAgent(tr, name)[name])
         THEN Scan(EnsureAgent(tr, name), i + 1, task_type, exclude,
                   Append(candidates,
                          <<name, ContextRemaining(EnsureAgent(tr, name)[name])>>))
         ELSE Scan(EnsureAgent(tr, name), i + 1, task_type, exclude, candidates)

\* x put into a list sorted by falling second component, before its equals
RECURSIVE InsertDesc(_, _)
InsertDesc(x, sorted) ==
    IF sorted = <<>> THEN <<x>>
    ELSE IF x[2] >= Head(sorted)[2] THEN <<x>> \o sorted
    ELSE <<Head(sorted)>> \o InsertDesc(x, Tail(sorted))

\* list.sort(key=lambda x: x[1], reverse=True): stable
RECURSIVE SortDesc(_)
SortDesc(seq) == IF seq = <<>> THEN <<>> ELSE InsertDesc(Head(seq), SortDesc(Tail(seq)))

\* faulty variant: the candidate with the least context left is returned
BestAgentFor_least(tr, task_type, exclude) ==
    LET scan == Scan(tr, 1, task_type, exclude, <<>>) IN
    [agents |-> scan.agents,
     value |-> IF scan.candidates = <<>> THEN None
               ELSE SortDesc(scan.candidates)[Len(scan.candidates)][1]]

\* best_agent_for(task_type, exclude): self.agents afterwards and the return value
BestAgentFor(tr, task_type, exclude) ==
    LET scan == Scan(tr, 1, task_type, exclude, <<>>) IN
    [agents |-> scan.agents,
     value |-> IF scan.candidates = <<>> THEN None
               ELSE SortDesc(scan.candidates)[1][1]]

\* entries a program can hold for an agent: none, a fresh one, one at exactly
\* 90% of its context, one beyond its limit, one without a limit, and ones
\* with a token budget or a cost budget short of and at its end
SampleAgents(name) ==
    LET fresh == AgentResources(name, DefaultLimit(name))
        at90 == (9 * DefaultLimit(name)) \div 10
    IN  { NoAgent, fresh,
          [fresh EXCEPT !.context_used = at90, !.tokens_used_session = at90,
                        !.tasks_completed = 1, !.last_task_at = "ts"],
          [fresh EXCEPT !.context_used = DefaultLimit(name) + 1,
                        !.tokens_used_session = DefaultLimit(name) + 1],
          AgentResources(name, 0),
          [fresh EXCEPT !.token_budget = 2, !.tokens_used_session = 1, !.context_used = 1],
          [fresh EXCEPT !.cost_budget_usd = 2, !.cost_used_usd = 1],
          [fresh EXCEPT !.cost_budget_usd = 1, !.cost_used_usd = 1] }

\* tokens a task reports, and how many tasks a tracker books here
TokenSamples == {0, 1}
MaxRecorded == 2

Recorded(tr) ==
    LET n(a) == IF a = NoAgent THEN 0 ELSE a.tasks_completed + a.tasks_failed
    IN  n(tr["codex"]) + n(tr["gemini"])

\* ResourceTracker.record_task(agent_name, tokens_used, success, error)
tracker_record_task(name, tokens_used, success, error) ==
    /\ Recorded(tracker) < MaxRecorded
    /\ tracker' = TrackerRecordTask(tracker, name, tokens_used, success, error)
    /\ state_file' = SaveData(tracker')
    /\ UNCHANGED <<storeVars, serverVars, mover, best, request, roundtrip, tailVars>>

\* ResourceTracker.best_agent_for(task_type, exclude)
tracker_best_agent_for(task_type, exclude) ==
    /\ tracker' = BestAgentFor(tracker, task_type, exclude).agents
    /\ best' = [task_type |-> task_type, exclude |-> exclude,
                value |-> BestAgentFor(tracker, task_type, exclude).value]
    /\ UNCHANGED <<storeVars, serverVars, mover, state_file, request, roundtrip, tailVars>>

\* a new ResourceTracker over the same state_path
tracker_reload ==
    /\ tracker' = LoadAgents(state_file)
    /\ UNCHANGED <<storeVars, serverVars, mover, state_file, best, request, roundtrip, tailVars>>

\* ------------------------------------------- two servers, one ledger file
\* how many tasks each of the two servers books
MaxBooked == 2

\* the entry of agent `name` in the ledger file, NoAgent without one
Persisted(file, name) ==
    IF file = NoFile THEN NoAgent
    ELSE IF name \in DOMAIN file.agents THEN file.agents[name] ELSE NoAgent

\* self.resource_tracker.record_task(self.name, ...) in the server process
\* `name` (server.py lines 470, 476, 483): booked on the server's own
\* self.agents; the ledger file is not read
LedgerRecordTask(own, file, name, tokens_used, success, error) ==
    TrackerRecordTask(own, name, tokens_used, success, error)

server_record_task(name, tokens_used, success, error) ==
    /\ Recorded(trackers[name]) < MaxBooked
    /\ trackers' = [trackers EXCEPT
                    ![name] = LedgerRecordTask(@, state_file, name, tokens_used, success, error)]
    /\ state_file' = SaveData(trackers'[name])
    /\ UNCHANGED <<storeVars, serverVars, mover, tracker, best, request, roundtrip,
                   probe, perfVars>>

\* the server process `name` is started again: ResourceTracker() at server.py
\* line 49 loads the ledger file
server_process_starts(name) ==
    /\ trackers' = [trackers EXCEPT ![name] = LoadAgents(state_file)]
    /\ UNCHANGED <<storeVars, serverVars, mover, tracker, state_file, best, request, roundtrip,
                   probe, perfVars>>

\* LedgerSpec: the servers codex and gemini, started over a root without a
\* ledger file, book their tasks and are restarted
NextLedger ==
    \/ \E name \in AgentNames : \E tokens_used \in TokenSamples : \E success \in BOOLEAN :
         server_record_task(name, tokens_used, success, IF success THEN None ELSE "boom")
    \/ \E name \in AgentNames : server_process_starts(name)

LedgerSpec == Init /\ [][NextLedger]_vars

\* ------------------------------------------------------------- _run_task
\* what execute_task can give at the await: a TaskResult, None, an exception,
\* or CancelledError when the awaiting coroutine is cancelled
ExecOutcomes(t) ==
    { [kind |-> "result", result |-> TaskResult(t, "completed", "ok", <<3>>, <<>>, None)],
      [kind |-> "result", result |-> TaskResult(t, "completed", "ok", <<>>, <<>>, None)],
      [kind |-> "result", result |-> TaskResult(t, "failed", None, <<>>, <<>>, None)],
      [kind |-> "none"], [kind |-> "raise"], [kind |-> "cancelled"] }

ExecError == "boom"
SaveError == "OSError"
\* time.time() - start, in whole seconds
Durations == {0}

Return(op, t, value, seen) == [op |-> op, task_id |-> t, value |-> value, seen |-> seen]

\* The state _run_task works on: the record, the store, the tracker, the ledger
\* file, the exception in flight (None when there is none), what was observed.
\* lines 461-470: the try block after the await
TryBlock(rec, fs, ag, led, o, d, lock1, save1) ==
    LET st0 == [rec |-> rec, fs |-> fs, ag |-> ag, led |-> led, exc |-> None, seen |-> {},
                writes |-> <<>>]
    IN
    IF o.kind = "none" THEN [st0 EXCEPT !.exc = NoResultError]
    ELSE IF o.kind = "raise" THEN [st0 EXCEPT !.exc = ExecError]
    ELSE IF o.kind = "cancelled" THEN [st0 EXCEPT !.exc = "CancelledError"]
    ELSE
      LET rec1 == [rec EXCEPT !.status = "completed", !.completed_at = "ts",
                              !.result = [o.result EXCEPT !.duration_seconds = <<d>>]]
      IN  IF ~lock1
          THEN [st0 EXCEPT !.rec = rec1, !.exc = LockTimeoutError,
                           !.seen = {"terminal_write_timeout"}]
          ELSE LET fs1 == WriteTask(fs, rec1)
                   ag1 == RecordTask(GetAgent(ag), TokensOf(o.result), TRUE, None)
               IN  IF save1
                   THEN [st0 EXCEPT !.rec = rec1, !.fs = fs1, !.ag = ag1, !.led = ag1,
                                    !.writes = <<rec1.status>>]
                   ELSE [st0 EXCEPT !.rec = rec1, !.fs = fs1, !.ag = ag1,
                                    !.exc = SaveError, !.seen = {"save_failed"},
                                    !.writes = <<rec1.status>>]

\* lines 471-483: the except clauses; an exception raised inside one leaves _run_task
Handlers(s, lock, save) ==
    IF s.exc = None THEN s
    ELSE
      LET rec2 == IF s.exc = "CancelledError"
                  THEN [s.rec EXCEPT !.status = "cancelled", !.completed_at = "ts",
                                     !.error = "cancelled"]
                  ELSE [s.rec EXCEPT !.status = "failed", !.completed_at = "ts",
                                     !.error = s.exc,
                                     !.result = TaskResult(s.rec.task_id, "failed", None,
                                                           <<>>, <<>>, s.exc)]
          err == IF s.exc = "CancelledError" THEN "cancelled" ELSE s.exc
      IN  IF ~lock
          THEN [s EXCEPT !.rec = rec2, !.exc = LockTimeoutError,
                         !.seen = @ \cup {"terminal_write_timeout"}]
          ELSE LET ag2 == RecordTask(GetAgent(s.ag), 0, FALSE, err) IN
               IF save
               THEN [s EXCEPT !.rec = rec2, !.fs = WriteTask(s.fs, rec2), !.ag = ag2,
                              !.led = ag2, !.exc = None,
                              !.writes = Append(@, rec2.status)]
               ELSE [s EXCEPT !.rec = rec2, !.fs = WriteTask(s.fs, rec2), !.ag = ag2,
                              !.exc = SaveError, !.writes = Append(@, rec2.status)]

\* lines 381-411, and call_tool's `except Exception` for what leaves submit_task
Response(t, rec, exc) ==
    IF exc /= None THEN [error |-> exc]
    ELSE IF rec.result /= NoResult
    THEN [task_id |-> t, status |-> rec.status, result |-> rec.result.result,
          duration_seconds |-> rec.result.duration_seconds]
    ELSE [task_id |-> t, status |-> rec.status, error |-> rec.error]

\* ------------------------------------------------------- server operations
HasFile(fs, t) == \E st \in Statuses : Exists(fs, t, st)

\* the auth argument of a tool call: none given (None, or an empty value), a
\* dict, or a str with what json.loads makes of it
NoAuth == [kind |-> "none"]
AuthDict(d) == [kind |-> "dict", doc |-> d]
AuthStr(loads) == [kind |-> "str", doc |-> loads]

\* `x or y` for optional strings
Or(x, y) == IF x \in {None, ""} THEN y ELSE x

\* verify_auth(auth). `verified`: what archon_utils.verify_json says of a
\* signed document (it asks the keymaster of the environment)
VerifyAuth(auth, verified) ==
    IF auth.kind = "none" THEN [allowed |-> TRUE, did |-> None]
    ELSE IF auth.kind = "str" /\ IsError(auth.doc) THEN [allowed |-> FALSE, did |-> None]
    ELSE IF "proof" \notin DOMAIN auth.doc /\ "issuer" \notin DOMAIN auth.doc
         THEN [allowed |-> TRUE,
               did |-> Or(Get(auth.doc, "did", None), Get(auth.doc, "credential_did", None))]
    ELSE IF ~verified THEN [allowed |-> FALSE, did |-> None]
    ELSE [allowed |-> TRUE, did |-> Get(auth.doc, "issuer", None)]

Unauthorized == [task_id |-> None, status |-> "rejected", reason |-> "unauthorized"]

\* submit_task, lines 355-370: the authorisation, then the request is built.
\* The event logged in between goes to the shared memory database, and a
\* failure of it is swallowed.
Admit(args, verified) ==
    LET auth == VerifyAuth(Get(args, "auth", NoAuth), verified)
        req == RequestFromDict(args)
    IN  IF ~auth.allowed
        THEN [refused |-> TRUE, response |-> Unauthorized]
        ELSE IF IsError(req)
        THEN [refused |-> TRUE, response |-> req]
        ELSE [refused |-> FALSE, request |-> req, requester_did |-> auth.did]

\* faulty variant: execute_task is awaited before the RUNNING record is persisted
submit_task_runs_unpersisted(args, verified, t, grabbed) ==
    /\ alive
    /\ tasks[t] = NoRecord /\ ~HasFile(files, t)
    /\ LET adm == Admit(args, verified) IN
       IF adm.refused
       THEN /\ ret' = Return("submit_task", 0, adm.response, {})
            /\ UNCHANGED <<tasks, files, lockHolder, inflight, calls>>
       ELSE LET record == TaskRecord(t, adm.request, adm.requester_did)
                pending == WriteTask(files, record)
                running == [record EXCEPT !.status = "running", !.started_at = "ts"]
            IN  /\ tasks' = [tasks EXCEPT ![t] = running]
                /\ IF grabbed
                   THEN /\ files' = pending
                        /\ lockHolder' = [lockHolder EXCEPT ![t] = Foreign]
                        /\ ret' = Return("submit_task", t, [error |-> LockTimeoutError], {})
                        /\ calls' = [calls EXCEPT ![t] = <<record.status>>]
                        /\ UNCHANGED inflight
                   ELSE /\ files' = pending
                        /\ inflight' = [inflight EXCEPT ![t] = "executing"]
                        /\ calls' = [calls EXCEPT ![t] = <<record.status, "execute">>]
                        /\ UNCHANGED <<lockHolder, ret>>
    /\ UNCHANGED <<alive, task_futures, agents, ledger, storeLocal, restVars>>

\* submit_task up to the await of execute_task (lines 354-378 and 454-460).
\* task_id is a fresh uuid. `grabbed`: another process took the task's lock
\* after the PENDING file appeared, so line 456 times out and submit_task
\* raises.
submit_task(args, verified, t, grabbed) ==
    /\ alive
    /\ tasks[t] = NoRecord /\ ~HasFile(files, t)
    /\ LET adm == Admit(args, verified) IN
       IF adm.refused
       THEN /\ ret' = Return("submit_task", 0, adm.response, {})
            /\ UNCHANGED <<tasks, files, lockHolder, inflight, calls>>
       ELSE LET record == TaskRecord(t, adm.request, adm.requester_did)
                pending == WriteTask(files, record)
                running == [record EXCEPT !.status = "running", !.started_at = "ts"]
            IN  /\ tasks' = [tasks EXCEPT ![t] = running]
                /\ IF grabbed
                   THEN /\ files' = pending
                        /\ lockHolder' = [lockHolder EXCEPT ![t] = Foreign]
                        /\ ret' = Return("submit_task", t, [error |-> LockTimeoutError], {})
                        /\ calls' = [calls EXCEPT ![t] = <<record.status>>]
                        /\ UNCHANGED inflight
                   ELSE /\ files' = WriteTask(pending, running)
                        /\ inflight' = [inflight EXCEPT ![t] = "executing"]
                        /\ calls' = [calls EXCEPT ![t] =
                                       <<record.status, running.status, "execute">>]
                        /\ UNCHANGED <<lockHolder, ret>>
    /\ UNCHANGED <<alive, task_futures, agents, ledger, storeLocal, restVars>>

\* `self._tasks.get(task_id) or self.storage.load_task(task_id)`
Lookup(cache, fs, t) == IF cache[t] /= NoRecord THEN cache[t] ELSE LoadTask(fs, t)

\* faulty variant: task_status indexes the cache, an unknown id raises
TaskStatusResponse_raises(cache, fs, t) ==
    LET record == Lookup(cache, fs, t) IN
    IF record = NoRecord THEN [error |-> "KeyError"]
    ELSE IF IsError(record) THEN record
    ELSE [task_id |-> t, status |-> record.status, started_at |-> record.started_at,
          completed_at |-> record.completed_at, error |-> record.error]

\* task_status(task_id), lines 413-424 (progress is never set: left out)
TaskStatusResponse(cache, fs, t) ==
    LET record == Lookup(cache, fs, t) IN
    IF record = NoRecord THEN [task_id |-> t, status |-> "unknown"]
    ELSE IF IsError(record) THEN record
    ELSE [task_id |-> t, status |-> record.status, started_at |-> record.started_at,
          completed_at |-> record.completed_at, error |-> record.error]

\* faulty variant: task_result without the test of line 430
TaskResultResponse_no_status_test(cache, fs, t) ==
    LET record == Lookup(cache, fs, t) IN
    IF record = NoRecord THEN [task_id |-> t, status |-> "unknown"]
    ELSE IF IsError(record) THEN record
    ELSE IF record.result /= NoResult THEN ResultToDict(record.result)
    ELSE [task_id |-> t, status |-> record.status, error |-> record.error]

\* task_result(task_id), lines 426-434
TaskResultResponse(cache, fs, t) ==
    LET record == Lookup(cache, fs, t) IN
    IF record = NoRecord THEN [task_id |-> t, status |-> "unknown"]
    ELSE IF IsError(record) THEN record
    ELSE IF record.status \notin {"completed", "failed"}
    THEN [task_id |-> t, status |-> record.status]
    ELSE IF record.result /= NoResult THEN ResultToDict(record.result)
    ELSE [task_id |-> t, status |-> record.status, error |-> record.error]

\* the task_status tool is called
task_status(t) ==
    /\ alive
    /\ ret' = Return("task_status", t, TaskStatusResponse(tasks, files, t), {})
    /\ UNCHANGED <<alive, tasks, files, lockHolder, inflight, task_futures, agents, ledger,
                   calls, storeLocal, restVars>>

\* the task_result tool is called
task_result(t) ==
    /\ alive
    /\ ret' = Return("task_result", t, TaskResultResponse(tasks, files, t), {})
    /\ UNCHANGED <<alive, tasks, files, lockHolder, inflight, task_futures, agents, ledger,
                   calls, storeLocal, restVars>>

\* agent_status(), lines 223-234 (uptime_seconds left out): the first id of
\* _task_futures whose future is not done; futures holds the ids not done
AgentStatusResponse(futures) ==
    LET current_task == IF futures = {} THEN 0 ELSE CHOOSE t \in futures : TRUE
    IN  [status |-> IF current_task /= 0 THEN "busy" ELSE "ready",
         current_task |-> current_task,
         queue_depth |-> Cardinality(futures)]

\* agent_info(), lines 214-221: the status key
AgentInfoResponse(futures) == [status |-> IF futures = {} THEN "ready" ELSE "busy"]

\* the agent_status tool is called
agent_status ==
    /\ alive
    /\ ret' = Return("agent_status", 0, AgentStatusResponse(task_futures), {})
    /\ UNCHANGED <<alive, tasks, files, lockHolder, inflight, task_futures, agents, ledger,
                   calls, storeLocal, restVars>>

\* the agent_info tool is called
agent_info ==
    /\ alive
    /\ ret' = Return("agent_info", 0, AgentInfoResponse(task_futures), {})
    /\ UNCHANGED <<alive, tasks, files, lockHolder, inflight, task_futures, agents, ledger,
                   calls, storeLocal, restVars>>

\* the process dies: memory is gone, the files stay
Down ==
    /\ alive' = FALSE
    /\ tasks' = [t \in DOMAIN tasks |-> NoRecord]
    /\ inflight' = [t \in DOMAIN inflight |-> "no"]
    /\ agents' = NoAgent

\* the server dies in submit_task between line 374 and line 456
submit_task_dies(t) ==
    /\ alive
    /\ tasks[t] = NoRecord /\ ~HasFile(files, t)
    /\ files' = WriteTask(files, TaskRecord(t, DemoRequest, None))
    /\ calls' = [calls EXCEPT ![t] = <<TaskRecord(t, DemoRequest, None).status>>]
    /\ Down
    /\ UNCHANGED <<lockHolder, task_futures, ledger, ret, storeLocal, restVars>>

\* the server dies at any other time (handlers are atomic, so: between handlers
\* or while execute_task is awaited)
server_dies ==
    /\ alive
    /\ Down
    /\ UNCHANGED <<files, lockHolder, task_futures, ledger, ret, calls, storeLocal, restVars>>

\* lines 461-483 after the await. lockNow / lockLater: the task's lock is free at
\* the first / at a second write_task of the call; save1, save2:
\* ResourceTracker._save succeeds at the first / second record_task.
RunTaskTail(rec, fs, ag, led, o, d, lockNow, lockLater, save1, save2) ==
    LET tried == TryBlock(rec, fs, ag, led, o, d, lockNow, save1)
        second == o.kind = "result" /\ tried.exc /= None
    IN  [Handlers(tried, IF second THEN lockLater ELSE lockNow,
                         IF "save_failed" \in tried.seen THEN save2 ELSE save1)
         EXCEPT !.seen = @ \cup (IF second THEN {"second_write"} ELSE {})]

\* execute_task ends for t: the rest of _run_task and of submit_task (lines 381-411)
run_task_ends(t, o, lockLater, save1, save2) ==
    /\ alive
    /\ inflight[t] /= "no"
    /\ inflight[t] = "cancel_sent" => o.kind = "cancelled"
    /\ \E d \in Durations :
       \E final \in {RunTaskTail(tasks[t], files, agents, ledger, o, d,
                                 lockHolder[t] = 0, lockLater, save1, save2)} :
           /\ tasks' = [tasks EXCEPT ![t] = final.rec]
           /\ files' = final.fs
           /\ agents' = final.ag
           /\ ledger' = final.led
           /\ ret' = Return("submit_task", t, Response(t, final.rec, final.exc),
                            final.seen \ {"second_write"})
           /\ calls' = [calls EXCEPT ![t] = Append(@, "ended") \o final.writes]
           /\ lockHolder' = IF "second_write" \in final.seen
                            THEN [lockHolder EXCEPT ![t] = IF lockLater THEN 0 ELSE Foreign]
                            ELSE lockHolder
    /\ inflight' = [inflight EXCEPT ![t] = "no"]
    /\ UNCHANGED <<alive, task_futures, storeLocal, restVars>>

\* faulty variant: cancel_task drops the supplied reason
cancel_task_drops_reason(t, reason) ==
    /\ alive
    /\ LET record == tasks[t] IN
       IF record = NoRecord
       THEN /\ ret' = Return("cancel_task", t, [success |-> FALSE, status |-> "unknown"], {})
            /\ UNCHANGED <<tasks, files, inflight>>
       ELSE IF record.status \in Terminal
       THEN /\ ret' = Return("cancel_task", t, [success |-> FALSE, status |-> record.status], {})
            /\ UNCHANGED <<tasks, files, inflight>>
       ELSE LET cancelled == [record EXCEPT !.status = "cancelled", !.completed_at = "ts",
                                            !.error = "cancelled"]
            IN  /\ inflight' = IF t \in task_futures /\ inflight[t] = "executing"
                               THEN [inflight EXCEPT ![t] = "cancel_sent"] ELSE inflight
                /\ tasks' = [tasks EXCEPT ![t] = cancelled]
                /\ IF lockHolder[t] = 0
                   THEN /\ files' = WriteTask(files, cancelled)
                        /\ ret' = Return("cancel_task", t,
                                         [success |-> TRUE, status |-> "cancelled"], {})
                   ELSE /\ ret' = Return("cancel_task", t, [error |-> LockTimeoutError], {})
                        /\ UNCHANGED files
    /\ UNCHANGED <<alive, lockHolder, task_futures, agents, ledger, calls, storeLocal, restVars>>

\* faulty variant: cancel_task without the test of lines 441-442
cancel_task_no_terminal_test(t, reason) ==
    /\ alive
    /\ LET record == tasks[t] IN
       IF record = NoRecord
       THEN /\ ret' = Return("cancel_task", t, [success |-> FALSE, status |-> "unknown"], {})
            /\ UNCHANGED <<tasks, files, inflight>>
       ELSE LET cancelled == [record EXCEPT !.status = "cancelled", !.completed_at = "ts",
                                            !.error = IF reason = None THEN "cancelled" ELSE reason]
            IN  /\ inflight' = IF t \in task_futures /\ inflight[t] = "executing"
                               THEN [inflight EXCEPT ![t] = "cancel_sent"] ELSE inflight
                /\ tasks' = [tasks EXCEPT ![t] = cancelled]
                /\ IF lockHolder[t] = 0
                   THEN /\ files' = WriteTask(files, cancelled)
                        /\ ret' = Return("cancel_task", t,
                                         [success |-> TRUE, status |-> "cancelled"], {})
                   ELSE /\ ret' = Return("cancel_task", t, [error |-> LockTimeoutError], {})
                        /\ UNCHANGED files
    /\ UNCHANGED <<alive, lockHolder, task_futures, agents, ledger, calls, storeLocal, restVars>>

\* cancel_task(task_id, reason), lines 436-451
cancel_task(t, reason) ==
    /\ alive
    /\ LET record == tasks[t] IN
       IF record = NoRecord
       THEN /\ ret' = Return("cancel_task", t, [success |-> FALSE, status |-> "unknown"], {})
            /\ UNCHANGED <<tasks, files, inflight>>
       ELSE IF record.status \in Terminal
       THEN /\ ret' = Return("cancel_task", t, [success |-> FALSE, status |-> record.status], {})
            /\ UNCHANGED <<tasks, files, inflight>>
       ELSE LET cancelled == [record EXCEPT !.status = "cancelled", !.completed_at = "ts",
                                            !.error = IF reason = None THEN "cancelled" ELSE reason]
            IN  /\ inflight' = IF t \in task_futures /\ inflight[t] = "executing"
                               THEN [inflight EXCEPT ![t] = "cancel_sent"] ELSE inflight
                /\ tasks' = [tasks EXCEPT ![t] = cancelled]
                /\ IF lockHolder[t] = 0
                   THEN /\ files' = WriteTask(files, cancelled)
                        /\ ret' = Return("cancel_task", t,
                                         [success |-> TRUE, status |-> "cancelled"], {})
                   ELSE /\ ret' = Return("cancel_task", t, [error |-> LockTimeoutError], {})
                        /\ UNCHANGED files
    /\ UNCHANGED <<alive, lockHolder, task_futures, agents, ledger, calls, storeLocal, restVars>>

\* _load_tasks line 58-60: a record found RUNNING
Reconciled(record) ==
    [record EXCEPT !.status = "failed", !.completed_at = "ts", !.error = RestartError]

\* faulty variant: _load_tasks corrects the cache and does not write the record back
LoadTasksFiles_no_write(fs, recs, todo) == fs

\* _load_tasks line 61 for each record found RUNNING
LoadTasksFiles(fs, recs, todo) == WriteAll(fs, recs, todo)

RunningIn(recs) == {t \in DOMAIN recs : recs[t] /= NoRecord /\ recs[t].status = "running"}

\* _load_tasks lines 55-60: the cache after the loop
LoadTasksCache(fs) ==
    LET loaded == LoadAll(fs) IN
    [t \in DOMAIN loaded |->
        IF t \in RunningIn(loaded) THEN Reconciled(loaded[t]) ELSE loaded[t]]

\* faulty variant: the records found PENDING or RUNNING are run again
server_starts_reruns ==
    /\ ~alive
    /\ \E fixed \in {LoadTasksCache(files)} :
         LET running == RunningIn(LoadAll(files))
             again == {t \in DOMAIN fixed : fixed[t] /= NoRecord
                                             /\ LoadAll(files)[t].status \in {"pending", "running"}}
         IN
           /\ \A t \in running : lockHolder[t] = 0
           /\ tasks' = [t \in DOMAIN fixed |->
                          IF t \in again THEN [fixed[t] EXCEPT !.status = "running"]
                          ELSE fixed[t]]
           /\ files' = LoadTasksFiles(files, tasks', again)
           /\ inflight' = [t \in DOMAIN inflight |-> IF t \in again THEN "executing" ELSE "no"]
           /\ calls' = [t \in DOMAIN calls |->
                          IF t \in again THEN calls[t] \o <<"running", "execute">>
                          ELSE calls[t]]
    /\ alive' = TRUE
    /\ agents' = ledger
    /\ UNCHANGED <<lockHolder, task_futures, ledger, ret, storeLocal, restVars>>

\* BaseAgentServer.__init__ over the storage root as it is: ResourceTracker()
\* reads the ledger, _load_tasks (lines 54-61) loads and reconciles
server_starts ==
    /\ ~alive
    /\ \E fixed \in {LoadTasksCache(files)} :
         LET running == RunningIn(LoadAll(files)) IN
           /\ \A t \in running : lockHolder[t] = 0
           /\ tasks' = fixed
           /\ files' = LoadTasksFiles(files, fixed, running)
    /\ alive' = TRUE
    /\ agents' = ledger
    /\ UNCHANGED <<lockHolder, inflight, task_futures, ledger, ret, calls, storeLocal, restVars>>

\* the same, but write_task times out on a RUNNING record whose lock another
\* process holds: __init__ raises, no server comes up. `done`: the records
\* written back before that one (load_all's order within a directory is the
\* directory's)
server_start_fails(done) ==
    /\ ~alive
    /\ LET running == RunningIn(LoadAll(files)) IN
           /\ \E t \in running : lockHolder[t] /= 0
           /\ done \subseteq {t \in running : lockHolder[t] = 0}
           /\ files' = LoadTasksFiles(files, LoadTasksCache(files), done)
    /\ ret' = Return("start", 0, [error |-> LockTimeoutError], {})
    /\ UNCHANGED <<alive, tasks, lockHolder, inflight, task_futures, agents, ledger, calls,
                   storeLocal, restVars>>

\* a second BaseAgentServer is constructed over the storage root while this
\* one is up: its _load_tasks (lines 54-61) loads every record and writes back
\* as FAILED each one it finds RUNNING. Its own cache is not followed.
second_server_starts ==
    /\ alive
    /\ \A t \in RunningIn(LoadAll(files)) : lockHolder[t] = 0
    /\ files' = LoadTasksFiles(files, LoadTasksCache(files), RunningIn(LoadAll(files)))
    /\ UNCHANGED <<serverVars, lockHolder, storeLocal, restVars>>

\* another process sharing the root enters / leaves write_task for a stored task
foreign_lock(t) ==
    /\ HasFile(files, t) /\ lockHolder[t] = 0
    /\ lockHolder' = [lockHolder EXCEPT ![t] = Foreign]
    /\ UNCHANGED <<files, serverVars, restVars, storeLocal>>

foreign_unlock(t) ==
    /\ lockHolder[t] /= 0
    /\ lockHolder' = [lockHolder EXCEPT ![t] = 0]
    /\ UNCHANGED <<files, serverVars, restVars, storeLocal>>

NextServer ==
    \/ \E t \in STasks : \E grabbed \in BOOLEAN : submit_task(DemoArgs, TRUE, t, grabbed)
    \/ \E t \in STasks : submit_task_dies(t)
    \/ server_dies
    \/ \E t \in STasks : \E o \in ExecOutcomes(t) :
         \E lockLater, save1, save2 \in BOOLEAN : run_task_ends(t, o, lockLater, save1, save2)
    \/ \E t \in STasks : \E reason \in {None, "stop"} : cancel_task(t, reason)
    \/ server_starts
    \/ \E done \in SUBSET STasks : server_start_fails(done)
    \/ \E t \in STasks : foreign_lock(t)
    \/ \E t \in STasks : foreign_unlock(t)

ServerInitAll == StoreInit(STasks) /\ ServerInit(STasks) /\ RestInit
ServerSpec == ServerInitAll /\ [][NextServer]_vars

\* QuerySpec: the server alone on its storage root (no other process takes a
\* task's lock), with the read tools task_status and task_result
NextQuery ==
    \/ \E t \in STasks : submit_task(DemoArgs, TRUE, t, FALSE)
    \/ \E t \in STasks : submit_task_dies(t)
    \/ server_dies
    \/ \E t \in STasks : \E o \in ExecOutcomes(t) :
         \E save1, save2 \in BOOLEAN : run_task_ends(t, o, TRUE, save1, save2)
    \/ \E t \in STasks : \E reason \in {None, "stop"} : cancel_task(t, reason)
    \/ server_starts
    \/ \E t \in STasks : task_status(t)
    \/ \E t \in STasks : task_result(t)

QuerySpec == ServerInitAll /\ [][NextQuery]_vars

\* TwinSpec: the server with second instances constructed over its root
NextTwin ==
    \/ \E t \in STasks : submit_task(DemoArgs, TRUE, t, FALSE)
    \/ \E t \in STasks : \E o \in ExecOutcomes(t) :
         \E save1, save2 \in BOOLEAN : run_task_ends(t, o, TRUE, save1, save2)
    \/ second_server_starts
    \/ \E t \in STasks : task_status(t)

TwinSpec == ServerInitAll /\ [][NextTwin]_vars

\* LiveSpec: a server that stays up, beside a process that takes and releases
\* the locks of stored tasks. Every awaited executor ends (it returns, raises
\* or is cancelled) and no lock is held for ever; a write_task that finds the
\* lock held through its ten attempts still gives up, as storage.py lines
\* 35-43 have it.
NextLive ==
    \/ \E t \in STasks : \E grabbed \in BOOLEAN : submit_task(DemoArgs, TRUE, t, grabbed)
    \/ \E t \in STasks : \E o \in ExecOutcomes(t) :
         \E lockLater, save1, save2 \in BOOLEAN : run_task_ends(t, o, lockLater, save1, save2)
    \/ \E t \in STasks : foreign_lock(t)
    \/ \E t \in STasks : foreign_unlock(t)

LiveFairness ==
    /\ \A t \in STasks :
         WF_vars(\E o \in ExecOutcomes(t) : \E lockLater, save1, save2 \in BOOLEAN :
                    run_task_ends(t, o, lockLater, save1, save2))
    /\ \A t \in STasks : WF_vars(foreign_unlock(t))

LiveSpec == ServerInitAll /\ [][NextLive]_vars /\ LiveFairness

\* StatusSpec: the server alone, asked for its status between and during tasks
NextStatus ==
    \/ \E t \in STasks : submit_task(DemoArgs, TRUE, t, FALSE)
    \/ \E t \in STasks : \E o \in ExecOutcomes(t) : run_task_ends(t, o, TRUE, TRUE, TRUE)
    \/ \E t \in STasks : \E reason \in {None, "stop"} : cancel_task(t, reason)
    \/ agent_status
    \/ agent_info

StatusSpec == ServerInitAll /\ [][NextStatus]_vars

\* SubmitSpec: the server alone, submissions with and without an auth
\* argument and with request fields inside and outside their classes
WithAuth(args, auth) ==
    [k \in DOMAIN args \cup {"auth"} |-> IF k = "auth" THEN auth ELSE args[k]]

SubmitRequests ==
    { DemoArgs,
      [type |-> "code", description |-> "fix", files |-> <<"a.py">>, priority |-> "high"],
      [type |-> "bogus", description |-> "demo"],
      [description |-> "demo", output_format |-> "xml"],
      [description |-> "demo", priority |-> "urgent"] }

SubmitAuths ==
    { AuthDict([did |-> "did:a"]),
      AuthDict([proof |-> "sig", issuer |-> "did:b"]),
      AuthStr([error |-> "JSONDecodeError"]) }

SubmitArgs == SubmitRequests \cup {WithAuth(a, auth) : a \in SubmitRequests, auth \in SubmitAuths}

NextSubmit ==
    \/ \E args \in SubmitArgs : \E verified \in BOOLEAN : \E t \in STasks :
         submit_task(args, verified, t, FALSE)
    \/ \E t \in STasks : \E o \in ExecOutcomes(t) : run_task_ends(t, o, TRUE, TRUE, TRUE)

SubmitSpec == ServerInitAll /\ [][NextSubmit]_vars

\* ------------------------------------------------- move_task, step by step
\* line 71: `old_path.exists()`; move_task takes no lock
move_task_exists(t, old, new) ==
    /\ mover.pc = "idle"
    /\ mover' = IF Exists(files, t, old)
                THEN [pc |-> "replace", task_id |-> t, old |-> old, new |-> new]
                ELSE MoverIdle
    /\ UNCHANGED <<storeVars, serverVars, tracker, state_file, best, request, roundtrip, tailVars>>

\* line 72: `old_path.replace(new_path)`, a rename over whatever is at the new
\* path; FileNotFoundError when the old file went away after line 71
move_task_replace ==
    /\ mover.pc = "replace"
    /\ LET t == mover.task_id IN
       files' = IF Exists(files, t, mover.old)
                THEN [files EXCEPT ![t] = [@ EXCEPT ![mover.old] = NoFile,
                                                   ![mover.new] = files[t][mover.old]]]
                ELSE files
    /\ mover' = MoverIdle
    /\ UNCHANGED <<tmp, writerVars, readerVars, serverVars, tracker, state_file, best,
                   request, roundtrip, tailVars>>

\* the moves of test_persistence.py
Moves == {<<"pending", "running">>, <<"running", "completed">>}

\* MoveSpec: one process inside write_task and one inside move_task, no crash
NextMove ==
    \/ write_task_begin(1)
    \/ write_task_flock(1)
    \/ write_task_unlink(1)
    \/ write_task_open_tmp(1)
    \/ write_task_dump(1)
    \/ write_task_replace(1)
    \/ write_task_finally(1)
    \/ \E t \in Tasks : \E m \in Moves : move_task_exists(t, m[1], m[2])
    \/ move_task_replace

MoveSpec == Init /\ [][NextMove]_vars

\* x * k and x \div k for a counter x and a small integer k
WideTimes(x, k) ==
    LET p3 == x[3] * k
        p2 == x[2] * k + p3 \div Limb
    IN  <<x[1] * k + p2 \div Limb, p2 % Limb, p3 % Limb>>

WideDivSmall(x, k) ==
    LET t2 == (x[1] % k) * Limb + x[2]
        t3 == (t2 % k) * Limb + x[3]
    IN  <<x[1] \div k, t2 \div k, t3 \div k>>

\* context limits an entry can be given: none, ten tokens, the default limits,
\* and 10^15 + 1, 2 * 10^15 + 1 and 4 * 10^15 + 1 tokens
ProbeLimits ==
    {Wide(0), Wide(10), Wide(100000), Wide(128000), Wide(200000), Wide(1000000),
     <<14551, 239921, 163841>>, <<29103, 217699, 65537>>, <<58207, 173254, 131073>>}

\* the usage read against a limit: nothing, all of it, one token more, and
\* the ProbeSpread + 1 token counts from nine tenths of it on
ProbeSpread == 12
ProbeUsed(context_limit) ==
    {WideZero, context_limit, WideAdd(context_limit, 1)}
        \cup {WideAdd(WideDivSmall(WideTimes(context_limit, 9), 10), j) : j \in 0..ProbeSpread}

\* AgentResources(context_used=..., context_limit=...).is_exhausted
is_exhausted(context_used, context_limit) ==
    /\ probe' = [context_used |-> context_used, context_limit |-> context_limit,
                 is_exhausted |-> IsExhaustedWide(context_used, context_limit)]
    /\ UNCHANGED <<storeVars, serverVars, mover, tracker, state_file, best, request, roundtrip,
                   perfVars, extraVars>>

\* ExhaustedSpec: is_exhausted read off entries around nine tenths of their limit
NextExhausted ==
    \E context_limit \in ProbeLimits : \E context_used \in ProbeUsed(context_limit) :
        is_exhausted(context_used, context_limit)

ExhaustedSpec == Init /\ [][NextExhausted]_vars

\* -------------------------------------------------- agent performance
\* the table's rows for (agent, task_type) counted: COUNT(*), the SUM over
\* success = 1, and the sum of duration_seconds that AVG divides
RECURSIVE PerfSum(_, _, _)
PerfSum(table, rows, weigh) ==
    IF rows = {} THEN 0
    ELSE LET r == CHOOSE x \in rows : TRUE
         IN  table[r] * (IF weigh THEN r.duration_seconds ELSE 1)
               + PerfSum(table, rows \ {r}, weigh)

PerfOf(agent, task_type) ==
    {r \in PerfRows : r.agent_name = agent /\ r.task_type = task_type}

PerfCount(table, agent, task_type) == PerfSum(table, PerfOf(agent, task_type), FALSE)

PerfSuccess(table, agent, task_type) ==
    PerfSum(table, {r \in PerfOf(agent, task_type) : r.success}, FALSE)

PerfDuration(table, agent, task_type) == PerfSum(table, PerfOf(agent, task_type), TRUE)

\* score > best_score for the tuples (rate, -avg_dur)
ScoreGt(score, best_score) ==
    \/ FloatGt(score.rate, best_score.rate)
    \/ score.rate = best_score.rate /\ FloatGt(best_score.avg_dur, score.avg_dur)

\* faulty variant: an agent is considered whatever the number of its samples
BestOfAgents_any_samples(table, task_type, available_agents, i, best_agent, best_score) ==
    LET agent == available_agents[i]
        n == PerfCount(table, agent, task_type)
        score == [rate |-> FloatDiv(PerfSuccess(table, agent, task_type), n),
                  avg_dur |-> FloatDiv(PerfDuration(table, agent, task_type), n)]
    IN  IF n < 1 THEN [agent |-> best_agent, score |-> best_score]
        ELSE IF best_agent = None \/ ScoreGt(score, best_score)
        THEN [agent |-> agent, score |-> score]
        ELSE [agent |-> best_agent, score |-> best_score]

\* lines 444-467: the body of the loop for available_agents[i]: best_agent
\* and best_score afterwards
BestOfAgents(table, task_type, available_agents, i, best_agent, best_score) ==
    LET agent == available_agents[i]
        n == PerfCount(table, agent, task_type)
        score == [rate |-> FloatDiv(PerfSuccess(table, agent, task_type), n),
                  avg_dur |-> FloatDiv(PerfDuration(table, agent, task_type), n)]
    IN  IF n < 3 THEN [agent |-> best_agent, score |-> best_score]
        ELSE IF best_agent = None \/ ScoreGt(score, best_score)
        THEN [agent |-> agent, score |-> score]
        ELSE [agent |-> best_agent, score |-> best_score]

\* get_best_agent_for_task(task_type, available_agents) from agent i on
RECURSIVE GetBestAgentForTask(_, _, _, _, _, _)
GetBestAgentForTask(table, task_type, available_agents, i, best_agent, best_score) ==
    IF i > Len(available_agents) THEN best_agent
    ELSE LET b == BestOfAgents(table, task_type, available_agents, i, best_agent, best_score)
         IN  GetBestAgentForTask(table, task_type, available_agents, i + 1, b.agent, b.score)

\* how many samples the table may hold, and the agent lists asked about
MaxSamples == 6
AgentLists ==
    {<<>>, <<"codex">>, <<"gemini">>, <<"codex", "gemini">>, <<"gemini", "codex">>}

\* record_agent_performance(agent_name, task_type, success, duration_seconds):
\* one more row (the fact written beside it is not read here)
record_agent_performance(row) ==
    /\ PerfSum(perf, PerfRows, FALSE) < MaxSamples
    /\ perf' = [perf EXCEPT ![row] = @ + 1]
    /\ pick' = NoPick
    /\ UNCHANGED <<storeVars, serverVars, mover, tracker, state_file, best, request, roundtrip,
                   probe, extraVars>>

\* get_best_agent_for_task(task_type, available_agents)
get_best_agent_for_task(task_type, available_agents) ==
    /\ pick' = [task_type |-> task_type, available_agents |-> available_agents,
                value |-> GetBestAgentForTask(perf, task_type, available_agents, 1, None,
                                              [rate |-> FloatZero, avg_dur |-> FloatZero])]
    /\ UNCHANGED <<storeVars, serverVars, mover, tracker, state_file, best, request, roundtrip,
                   probe, perf, extraVars>>

\* PerfSpec: samples are recorded and the best agent is asked for
NextPerf ==
    \/ \E row \in PerfRows : record_agent_performance(row)
    \/ \E task_type \in {"code", "general"} : \E available_agents \in AgentLists :
         get_best_agent_for_task(task_type, available_agents)

PerfSpec == Init /\ [][NextPerf]_vars

\* ------------------------------------------------------ request round trip
\* The TaskRequest values converted here: every member of the three classes,
\* with the field values of tests/test_protocol.py and the defaults
ValidRequests ==
    {TaskRequest(type, description, fs, context, constraints, output_format,
                 priority, callback, timeout_seconds) :
        type \in TaskType, description \in {"", "test"},
        fs \in {<<>>, <<"a", "b">>}, context \in {None, "ctx"},
        constraints \in {<<>>, <<"c1">>}, output_format \in OutputFormat,
        priority \in TaskPriority, callback \in {None, "cb"},
        timeout_seconds \in {<<>>, <<0>>, <<5>>}}

\* RequestSpec: one of these requests, not converted yet
RequestInit ==
    /\ StoreInit(Tasks) /\ ServerInit(Tasks)
    /\ mover = MoverIdle /\ tracker = NoAgent /\ state_file = NoFile /\ best = NoBest
    /\ roundtrip = NoLoad /\ TailInit
    /\ request \in [r : ValidRequests, back : {NoResp}]

\* test_task_request_roundtrip: data = req.to_dict(); req2 = TaskRequest.from_dict(data)
task_request_roundtrip ==
    /\ request.back = NoResp
    /\ request' = [request EXCEPT !.back = RequestFromDict(RequestToDict(request.r))]
    /\ UNCHANGED <<storeVars, serverVars, mover, tracker, state_file, best, roundtrip, tailVars>>

NextRequest == task_request_roundtrip

RequestSpec == RequestInit /\ [][NextRequest]_vars

\* ------------------------------------------------------ storage round trip
\* The tasks written here, and the records handed to write_task: those of
\* SampleRecords, the same with the request and the requester of
\* test_persistence.py, and a completed one whose result has every field set
\* (a text payload, as servers/codex_server.py returns)
NumStored == 2
StoredTasks == 1..NumStored

PersistenceRequest ==
    TaskRequest("code", "Test task for persistence", <<>>, None, <<>>, "text", "normal",
                None, <<>>)

RoundTripRecords(t) ==
    LET asked == {[r EXCEPT !.request = PersistenceRequest,
                            !.requester_did = "test-requester-did"] : r \in SampleRecords(t)}
        r2 == CHOOSE r \in asked : r.status = "completed"
    IN  SampleRecords(t) \cup asked \cup
        {[r2 EXCEPT !.progress = <<100>>,
                    !.result = [task_id |-> t, status |-> "completed",
                                result |-> "stdout of the agent",
                                files_created |-> <<"out.txt">>,
                                summary |-> "Codex task completed.",
                                token_usage |-> <<7>>, duration_seconds |-> <<1>>,
                                error |-> None]]}

\* RoundTripSpec: an empty root, one caller at a time
RoundTripInit ==
    /\ StoreInit(StoredTasks) /\ ServerInit(Tasks)
    /\ mover = MoverIdle /\ tracker = NoAgent /\ state_file = NoFile /\ best = NoBest
    /\ request = NoRequest /\ TailInit
    /\ roundtrip = NoLoad

\* storage.write_task(record), run to completion
storage_write_task(record) ==
    /\ files' = WriteTask(files, record)
    /\ roundtrip' = [rec |-> record, one |-> NoResp, all |-> NoResp,
                     ids |-> roundtrip.ids \cup {record.task_id}, fresh |-> FALSE]
    /\ UNCHANGED <<storeLocal, lockHolder, serverVars, mover, tracker, state_file, best,
                   request, tailVars>>

\* storage.load_task(record.task_id) for the record written last. With `fresh`
\* the call is made on TaskStorage(base_dir) constructed for it: over an
\* existing root _ensure_dirs makes nothing, and an instance keeps no state
\* but base_dir.
storage_load_task(fresh) ==
    /\ roundtrip.rec /= NoRecord
    /\ roundtrip' = [roundtrip EXCEPT !.one = LoadTask(files, roundtrip.rec.task_id),
                                      !.fresh = fresh]
    /\ UNCHANGED <<storeVars, serverVars, mover, tracker, state_file, best, request, tailVars>>

\* storage.load_all(), on the same instance or a new one
storage_load_all(fresh) ==
    /\ roundtrip' = [roundtrip EXCEPT !.all = LoadAll(files), !.fresh = fresh]
    /\ UNCHANGED <<storeVars, serverVars, mover, tracker, state_file, best, request, tailVars>>

NextRoundTrip ==
    \/ \E t \in StoredTasks : \E record \in RoundTripRecords(t) : storage_write_task(record)
    \/ \E fresh \in BOOLEAN : storage_load_task(fresh)
    \/ \E fresh \in BOOLEAN : storage_load_all(fresh)

RoundTripSpec == RoundTripInit /\ [][NextRoundTrip]_vars

\* TrackerSpec: one ResourceTracker with entries as a program can hold them, no
\* ledger file yet
TrackerInit ==
    /\ StoreInit(Tasks) /\ ServerInit(Tasks)
    /\ mover = MoverIdle /\ request = NoRequest /\ roundtrip = NoLoad /\ TailInit
    /\ tracker \in [AgentNames -> UNION {SampleAgents(n) : n \in AgentNames}]
    /\ \A n \in AgentNames : tracker[n] \in SampleAgents(n)
    /\ state_file = NoFile
    /\ best = NoBest

NextTracker ==
    \/ \E name \in AgentNames : \E tokens_used \in TokenSamples : \E success \in BOOLEAN :
         \E error \in {None, "boom"} : tracker_record_task(name, tokens_used, success, error)
    \/ tracker_reload

TrackerSpec == TrackerInit /\ [][NextTracker]_vars

\* BestSpec: the same trackers, asked for the best agent between bookings of
\* successful tasks
NextBest ==
    \/ \E task_type \in TaskType \cup {"vision"} : \E exclude \in SUBSET AgentNames :
         tracker_best_agent_for(task_type, exclude)
    \/ \E name \in AgentNames : \E tokens_used \in TokenSamples :
         tracker_record_task(name, tokens_used, TRUE, None)

BestSpec == TrackerInit /\ [][NextBest]_vars

\* StoreSpec: the writer processes alone
NextStore ==
    \/ \E p \in Writers : write_task_begin(p)
    \/ \E p \in Writers : write_task_flock(p)
    \/ \E p \in Writers : write_task_unlink(p)
    \/ \E p \in Writers : write_task_open_tmp(p)
    \/ \E p \in Writers : write_task_dump(p)
    \/ \E p \in Writers : write_task_dump_fails(p)
    \/ \E p \in Writers : write_task_replace(p)
    \/ \E p \in Writers : write_task_finally(p)
    \/ \E p \in Writers : writer_crash(p)

StoreSpec == Init /\ [][NextStore]_vars

\* ReadSpec: the reader against one writer process. Files change only between
\* flock and unlock, so one writer produces every sequence of file states
\* that the writers of StoreSpec produce together.
NextRead ==
    \/ write_task_begin(1)
    \/ write_task_flock(1)
    \/ write_task_unlink(1)
    \/ write_task_open_tmp(1)
    \/ write_task_dump(1)
    \/ write_task_dump_fails(1)
    \/ write_task_replace(1)
    \/ write_task_finally(1)
    \/ writer_crash(1)
    \/ \E t \in Tasks : load_task_begin(t)
    \/ load_task_exists
    \/ load_task_read
    \/ load_all_begin
    \/ \E st \in Statuses : list_by_status_begin(st)
    \/ dir_glob
    \/ dir_read

ReadSpec == Init /\ [][NextRead]_vars

\* ------------------------------------------------------- store properties
FilesOf(t) == {st \in Statuses : Exists(files, t, st)}
Quiet(t) == \A p \in Writers : wpc[p] = "idle" \/ wrec[p].task_id /= t

\* writer p is between a successful flock and its unlock
InWrite(p) ==
    \/ wpc[p] \in {"unlink", "open_tmp", "dump", "replace"}
    \/ wpc[p] = "finally" /\ wgot[p]

\* C1: after completed write_task calls for a task id, whatever the succession of
\* statuses, exactly one file of that id exists and it lies in the directory of
\* the status of the last completed write.
C1_OneFileInLastStatus ==
    \A t \in Tasks : lastWrite[t] /= None => FilesOf(t) = {lastWrite[t]}

\* a completed write that took the file out of another status directory
C1_Witness ==
    \E t \in Tasks : lastWrite[t] = "completed" /\ moved[t] /\ FilesOf(t) = {"completed"}

\* C2 (as claimed): once a write_task for a task id has completed, a complete
\* file of that id exists whenever no write for it is under way, also after a
\* later write_task for it was cut short by a crash.
C2_NoTaskLost ==
    \A t \in Tasks : (written[t] /\ Quiet(t)) =>
        \E st \in Statuses : Exists(files, t, st) /\ files[t][st] /= Partial

\* C3: a writer dying between any two steps of write_task never leaves two
\* final <task_id>.json files of one task in two status directories.
C3_NeverTwoCopies ==
    \A t \in Tasks : Cardinality(FilesOf(t)) <= 1

\* a writer died between fsync and rename, after it had removed the stale copy of
\* an earlier write: only the whole temporary file is left (a failed dump leaves
\* a partial one)
C3_Witness ==
    \E t \in Tasks :
        /\ written[t] /\ Quiet(t) /\ FilesOf(t) = {}
        /\ \E st \in Statuses : tmp[t][st] /= NoFile /\ tmp[t][st] /= Partial

\* C4: no final <task_id>.json file ever holds a partial record, and no read
\* of load_task, load_all or list_by_status fails to parse, also when a
\* write_task fails or dies while writing the temporary file.
C4_NoPartialRead ==
    /\ \A t \in Tasks : \A st \in Statuses : files[t][st] /= Partial
    /\ ~(rres.kind = "error" /\ rres.err = "JSONDecodeError")

\* a read returned a whole record while a cut-short temporary file lay in the store
C4_Witness ==
    /\ rres.kind \in {"record", "map"}
    /\ \E t \in Tasks :
         /\ \E st \in Statuses : tmp[t][st] = Partial
         /\ (rres.kind = "record" => rres.rec.task_id = t)
         /\ (rres.kind = "map" => rres.map[t] /= NoRecord)
    /\ faults > 0

\* C5: two write_task calls for one task id are never both between lock
\* acquisition and lock release.
C5_MutualExclusion ==
    \A p, q \in Writers :
        (p /= q /\ InWrite(p) /\ InWrite(q)) => wrec[p].task_id /= wrec[q].task_id

\* one writer gave up on the lock while the other was inside write_task
C5_Witness ==
    \E p, q \in Writers :
        /\ p /= q /\ InWrite(p)
        /\ wpc[q] = "finally" /\ ~wgot[q] /\ wrec[q].task_id = wrec[p].task_id

\* ------------------------------------------------------ server properties
\* the status directory that holds t's file ("absent" when none does)
StoreStatus(fs, t) ==
    IF \E st \in Statuses : Exists(fs, t, st)
    THEN CHOOSE st \in Statuses : Exists(fs, t, st)
    ELSE "absent"

CacheStatus(c, t) == IF c[t] = NoRecord THEN "absent" ELSE c[t].status

\* C6 (as claimed): once cancel_task was accepted for a task whose executor is
\* still in flight (cache and store hold it CANCELLED), the record stays
\* CANCELLED in the store, and in the cache while the server lives, whatever
\* the executor then does.
C6_CancelledStays ==
    [][\A t \in STasks :
         ( /\ alive /\ inflight[t] /= "no"
           /\ CacheStatus(tasks, t) = "cancelled"
           /\ StoreStatus(files, t) = "cancelled" )
         => /\ StoreStatus(files', t) = "cancelled"
            /\ (alive' => CacheStatus(tasks', t) = "cancelled")]_vars

LegalTransitions ==
    { <<"pending", "running">>, <<"pending", "cancelled">>, <<"running", "completed">>,
      <<"running", "failed">>, <<"running", "cancelled">> }

LegalChange(a, b) == a = b \/ a = "absent" \/ b = "absent" \/ <<a, b>> \in LegalTransitions

\* C7 (as claimed): every change of a record's status, in the store and in the
\* cache, is one of the five lifecycle transitions; a terminal status never changes.
C7_LegalTransitions ==
    [][\A t \in STasks :
         /\ LegalChange(StoreStatus(files, t), StoreStatus(files', t))
         /\ LegalChange(CacheStatus(tasks, t), CacheStatus(tasks', t))
         /\ StoreStatus(files, t) /= "absent" => StoreStatus(files', t) /= "absent"]_vars

\* C8: when a server has been constructed over a storage root, no record of the
\* store or of the cache is RUNNING; each record that was RUNNING is FAILED with
\* the restart error and completed_at set, in the failed directory and in the
\* cache; each other record, and its file, is as it was.
C8_StartupReconciles ==
    [][(~alive /\ alive') =>
         \A t \in STasks :
           LET was == StoreStatus(files, t) IN
           /\ StoreStatus(files', t) /= "running"
           /\ CacheStatus(tasks', t) /= "running"
           /\ was = "running" =>
                LET want == [files[t]["running"] EXCEPT !.status = "failed",
                                 !.completed_at = "ts",
                                 !.error = "Server restarted while task was running."]
                IN  /\ files'[t] = [st \in Statuses |-> IF st = "failed" THEN want ELSE NoFile]
                    /\ tasks'[t] = want
           /\ was /= "running" =>
                /\ files'[t] = files[t]
                /\ tasks'[t] = IF was = "absent" THEN NoRecord ELSE files[t][was]]_vars

\* a server came up over a store that held a RUNNING record and a COMPLETED one
C8_Witness ==
    /\ alive
    /\ \E t, u \in STasks :
         /\ CacheStatus(tasks, t) = "failed" /\ tasks[t].error = RestartError
         /\ StoreStatus(files, t) = "failed"
         /\ CacheStatus(tasks, u) = "completed" /\ StoreStatus(files, u) = "completed"

\* C9 (as claimed): when record_task raises after the COMPLETED record was
\* persisted, the task stays COMPLETED in store and cache and submit_task
\* reports it completed.
C9_LedgerFailureHarmless ==
    (ret.op = "submit_task" /\ "save_failed" \in ret.seen) =>
        /\ StoreStatus(files, ret.task_id) = "completed"
        /\ (alive => CacheStatus(tasks, ret.task_id) = "completed")
        /\ "status" \in DOMAIN ret.value /\ ret.value.status = "completed"

\* C10 (as claimed): when write_task times out while _run_task persists the
\* terminal record, submit_task ends with an error, not with a normal response.
C10_WriteFailureSurfaced ==
    (ret.op = "submit_task" /\ "terminal_write_timeout" \in ret.seen) =>
        DOMAIN ret.value = {"error"}

\* C11 (as claimed): every record of the cache and of the store has a result
\* exactly when its status is COMPLETED or FAILED.
C11_ResultIffCompletedOrFailed ==
    \A t \in STasks :
        /\ tasks[t] /= NoRecord =>
             ((tasks[t].result /= NoResult) <=> (tasks[t].status \in {"completed", "failed"}))
        /\ \A st \in Statuses :
             Exists(files, t, st) =>
               ((files[t][st].result /= NoResult) <=> (st \in {"completed", "failed"}))

C13_CancelStopsExecutor ==
    [][\A t \in STasks :
         ( /\ alive /\ alive' /\ inflight[t] = "executing"
           /\ CacheStatus(tasks, t) = "running"
           /\ CacheStatus(tasks', t) = "cancelled" )
         => inflight'[t] = "cancel_sent"]_vars

\* C14: cancel_task for a task that is COMPLETED, FAILED or CANCELLED returns
\* success false with the current status and leaves the cache, the store, the
\* tracker and the ledger file as they were.
C14_CancelTerminalRejected ==
    [][\A t \in STasks : \A reason \in {None, "stop"} :
         ( /\ alive /\ tasks[t] /= NoRecord
           /\ tasks[t].status \in {"completed", "failed", "cancelled"}
           /\ cancel_task(t, reason) )
         => /\ ret'.op = "cancel_task"
            /\ ret'.value = [success |-> FALSE, status |-> tasks[t].status]
            /\ UNCHANGED <<tasks, files, agents, ledger>>]_vars

\* cancel_task was rejected for a COMPLETED task that still has its result
C14_Witness ==
    /\ alive /\ ret.op = "cancel_task"
    /\ ret.value = [success |-> FALSE, status |-> "completed"]
    /\ tasks[ret.task_id].status = "completed"
    /\ tasks[ret.task_id].result /= NoResult
    /\ StoreStatus(files, ret.task_id) = "completed"

C17_SubmitOrder ==
    \A t \in STasks :
      LET c == calls[t] IN
      /\ \A i \in 1..Len(c) :
           /\ c[i] = "pending" => i = 1
           /\ c[i] = "running" => (i > 1 /\ c[i - 1] = "pending")
           /\ c[i] = "execute" => (i > 1 /\ c[i - 1] = "running")
           /\ c[i] = "ended" => (i > 1 /\ c[i - 1] = "execute")
           /\ c[i] \in Terminal => \E j \in 1..(i - 1) : c[j] = "ended"
      /\ inflight[t] = "executing" => (Len(c) = 3 /\ c[3] = "execute")

\* a submit_task call ran through: PENDING, RUNNING, executor, COMPLETED
C17_Witness ==
    \E t \in STasks : calls[t] = <<"pending", "running", "execute", "ended", "completed">>

\* C18 (as claimed): submit_task whose executor succeeds returns status
\* "accepted" with the task id, and task_result afterwards says "completed".
C18_SubmitReturnsAccepted ==
    [][\A t \in STasks : \A o \in ExecOutcomes(t) : \A save2 \in BOOLEAN :
         ( /\ alive /\ inflight[t] = "executing" /\ o.kind = "result"
           /\ CacheStatus(tasks, t) = "running" /\ lockHolder[t] = 0
           /\ run_task_ends(t, o, TRUE, TRUE, save2) )
         => /\ ret'.value.task_id = t
            /\ ret'.value.status = "accepted"
            /\ TaskResultResponse(tasks', files', t).status = "completed"]_vars

\* C19: for a task id that neither the cache nor the store holds, task_status
\* and task_result return the task id with status "unknown" and change
\* neither the cache nor the store.
C19_UnknownTask ==
    [][\A t \in STasks :
         (alive /\ tasks[t] = NoRecord /\ ~HasFile(files, t) /\ (task_status(t) \/ task_result(t)))
         => /\ ret'.value = [task_id |-> t, status |-> "unknown"]
            /\ ret'.op \in {"task_status", "task_result"}
            /\ UNCHANGED <<tasks, files>>]_vars

\* task_status answered "unknown" for an id never submitted while the server
\* held another task
C19_Witness ==
    /\ alive /\ ret.op = "task_status"
    /\ ret.value = [task_id |-> ret.task_id, status |-> "unknown"]
    /\ tasks[ret.task_id] = NoRecord /\ ~HasFile(files, ret.task_id)
    /\ \E u \in STasks : tasks[u] /= NoRecord

\* C20: task_result for a task that is PENDING or RUNNING returns the task id
\* and the current status and nothing else.
C20_ResultBeforeTerminal ==
    [][\A t \in STasks :
         ( /\ alive /\ tasks[t] /= NoRecord
           /\ tasks[t].status \in {"pending", "running"}
           /\ task_result(t) )
         => /\ ret'.op = "task_result"
            /\ ret'.value = [task_id |-> t, status |-> tasks[t].status]]_vars

\* task_result answered for a task whose executor was in flight
C20_Witness ==
    /\ alive /\ ret.op = "task_result"
    /\ inflight[ret.task_id] = "executing"
    /\ ret.value = [task_id |-> ret.task_id, status |-> "running"]

\* C21 (as claimed): within one server at most one task is RUNNING at any time.
C21_OneRunningTask ==
    alive => Cardinality({t \in STasks : CacheStatus(tasks, t) = "running"}) <= 1

\* C23: write_task tries the lock at most LockRetries times: every failed try
\* uses one up and a call is at the lock loop only with tries left; when the
\* last try finds the lock held the call goes to its finally block without the
\* lock (the RuntimeError is on its way out), and a call that does not hold the
\* lock is at no file-changing step and its own steps leave every final and
\* temporary file, and the holder's lock, as they were.
C23_LockTimeout ==
    [][\A p \in Writers :
          /\ wpc'[p] = "flock" => wretries'[p] \in 1..LockRetries
          /\ wpc'[p] \in {"unlink", "open_tmp", "dump", "replace"} => wgot'[p]
          /\ (write_task_flock(p) /\ ~wgot'[p]) =>
                /\ wretries'[p] = wretries[p] - 1
                /\ wretries[p] = 1 => wpc'[p] = "finally"
                /\ files' = files /\ tmp' = tmp /\ lockHolder' = lockHolder
          /\ (write_task_finally(p) /\ ~wgot[p]) =>
                files' = files /\ tmp' = tmp /\ lockHolder' = lockHolder
      ]_vars

\* a call used up its last try against a lock held by a writer that is in the
\* middle of changing the task's files
C23_Witness ==
    \E p, q \in Writers :
        /\ wpc[q] = "finally" /\ ~wgot[q] /\ wretries[q] = 0
        /\ lockHolder[wrec[q].task_id] = p /\ wpc[p] \in {"open_tmp", "dump", "replace"}

\* C22: a submit_task call that verify_auth denies, or whose type,
\* output_format or priority is outside its class, answers "rejected" or raises
\* ValueError and leaves the cache, every status directory (temporary files
\* included) and the resource ledger as they were.
C22_Denied(args, verified) ==
    LET auth == Get(args, "auth", NoAuth) IN
    \/ auth.kind = "str" /\ IsError(auth.doc)
    \/ auth.kind /= "none" /\ ("proof" \in DOMAIN auth.doc \/ "issuer" \in DOMAIN auth.doc)
                           /\ ~verified

C22_Malformed(args) ==
    \/ Get(args, "type", "general") \notin {"code", "research", "analysis", "general"}
    \/ Get(args, "output_format", "text") \notin {"text", "json", "file"}
    \/ Get(args, "priority", "normal") \notin {"low", "normal", "high"}

C22_RejectedCreatesNothing ==
    [][\A args \in SubmitArgs : \A verified \in BOOLEAN : \A t \in STasks :
          ((C22_Denied(args, verified) \/ C22_Malformed(args))
              /\ submit_task(args, verified, t, FALSE))
          => /\ UNCHANGED <<tasks, files, tmp, agents, ledger, inflight>>
             /\ ret'.value = IF C22_Denied(args, verified)
                             THEN [task_id |-> None, status |-> "rejected",
                                   reason |-> "unauthorized"]
                             ELSE [error |-> "ValueError"]
      ]_vars

\* both kinds of rejection happened on a server that holds a task: the last
\* call was refused, the cache and the store still hold only the earlier task
C22_Witness ==
    /\ ret.op = "submit_task"
    /\ ret.value \in {[task_id |-> None, status |-> "rejected", reason |-> "unauthorized"],
                      [error |-> "ValueError"]}
    /\ \E t \in STasks : tasks[t] /= NoRecord /\ HasFile(files, t)
    /\ \E t \in STasks : tasks[t] = NoRecord /\ ~HasFile(files, t)

\* C24 (as claimed): once the write_task and move_task calls on a task id have
\* finished, whatever their interleaving, at most one <task_id>.json of that id
\* exists across the status directories.
C24_MoveNeverDuplicates ==
    (mover.pc = "idle" /\ \A p \in Writers : wpc[p] = "idle")
        => \A t \in Tasks : Cardinality(FilesOf(t)) <= 1

\* C25: best_agent_for(task_type, exclude), whose arguments the step leaves in
\* `best`, returns None exactly when no agent of
\* the capability table supports task_type, is outside exclude and can accept a
\* task; otherwise it returns one of these agents, and none of them has more
\* context remaining than it. In particular it returns None when every capable
\* agent is exhausted.
C25_Capable(name, task_type) ==
    \/ name = "codex" /\ task_type \in {"code", "analysis"}
    \/ name = "gemini" /\ task_type \in {"research", "analysis", "general"}

C25_Entry(name) ==
    IF tracker[name] = NoAgent THEN AgentResources(name, DefaultLimit(name))
    ELSE tracker[name]

C25_BestAgent ==
    [][LET task_type == best'.task_type
           exclude == best'.exclude
           cands == {n \in AgentNames : /\ C25_Capable(n, task_type)
                                        /\ n \notin exclude
                                        /\ CanAcceptTask(C25_Entry(n))}
       IN  tracker_best_agent_for(task_type, exclude) =>
             /\ (best'.value = None) <=> (cands = {})
             /\ cands /= {} =>
                  /\ best'.value \in cands
                  /\ \A m \in cands : ContextRemaining(C25_Entry(best'.value))
                                        >= ContextRemaining(C25_Entry(m))
             /\ (\A n \in AgentNames :
                    C25_Capable(n, task_type) => IsExhausted(C25_Entry(n)))
                  => best'.value = None
      ]_vars

\* both agents could take the analysis task and the first of the table was
\* returned because the second had less of its context left
C25_Witness ==
    /\ best.task_type = "analysis" /\ best.exclude = {} /\ best.value = "codex"
    /\ \A n \in AgentNames : tracker[n] /= NoAgent /\ CanAcceptTask(tracker[n])
    /\ ContextRemaining(tracker["gemini"]) < ContextRemaining(tracker["codex"])
    /\ ContextRemaining(tracker["gemini"]) > 0

\* C26: for every ledger entry with non-negative integer counters,
\* is_exhausted holds iff context_used * 100 > 90 * context_limit, and never
\* when context_limit is 0. (The other derived predicates of the claim compare
\* integers only.)
C26_IsExhaustedExact ==
    probe /= NoProbe =>
        (probe.is_exhausted <=>
            /\ probe.context_limit /= WideZero
            /\ WideGeq(WideTimes(probe.context_used, 100),
                       WideAdd(WideTimes(probe.context_limit, 90), 1)))

\* C27: record_task(agent, tokens_used, success, error) increases that agent's
\* tokens_used_session and context_used by exactly tokens_used, increases
\* tasks_completed by one when success and tasks_failed by one (recording
\* last_error) otherwise, leaves every other agent's entry in memory unchanged,
\* and on return the ledger file holds the counters of the ledger in memory.
C27_Before(name) ==
    IF tracker[name] = NoAgent THEN AgentResources(name, DefaultLimit(name))
    ELSE tracker[name]

C27_Counters(a) ==
    <<a.context_limit, a.context_used, a.tokens_used_session,
      a.tasks_completed, a.tasks_failed>>

C27_RecordTask ==
    [][\A name \in AgentNames : \A tokens_used \in TokenSamples :
       \A success \in BOOLEAN : \A error \in {None, "boom"} :
          tracker_record_task(name, tokens_used, success, error) =>
            LET before == C27_Before(name)
                after == tracker'[name]
            IN  /\ after /= NoAgent
                /\ after.tokens_used_session = before.tokens_used_session + tokens_used
                /\ after.context_used = before.context_used + tokens_used
                /\ success => /\ after.tasks_completed = before.tasks_completed + 1
                              /\ after.tasks_failed = before.tasks_failed
                /\ ~success => /\ after.tasks_failed = before.tasks_failed + 1
                               /\ after.tasks_completed = before.tasks_completed
                               /\ after.last_error = error
                /\ \A other \in AgentNames \ {name} : tracker'[other] = tracker[other]
                /\ state_file' /= NoFile
                /\ DOMAIN state_file'.agents = {n \in AgentNames : tracker'[n] /= NoAgent}
                /\ \A n \in DOMAIN state_file'.agents :
                      C27_Counters(state_file'.agents[n]) = C27_Counters(tracker'[n])
      ]_vars

\* a failed task of one token was booked on one agent while the other agent
\* has an entry of its own, and the file holds both
C27_Witness ==
    \E n, m \in AgentNames :
        /\ n /= m /\ tracker[n] /= NoAgent /\ tracker[m] /= NoAgent
        /\ tracker[n].tasks_failed = 1 /\ tracker[n].last_error = "boom"
        /\ tracker[n].tokens_used_session = 1 /\ tracker[n].context_used = 1
        /\ tracker[m].tasks_completed + tracker[m].tasks_failed = 1
        /\ tracker[m].context_used > 1
        /\ state_file /= NoFile
        /\ DOMAIN state_file.agents = AgentNames
        /\ \A a \in AgentNames :
              C27_Counters(state_file.agents[a]) = C27_Counters(tracker[a])

\* C28: a new ResourceTracker constructed over a ledger file saved by another
\* tracker holds, for every agent, the same context limit and usage, session
\* token usage, token budget, cost budget and cost usage, completed and failed
\* counters, last task time and last error as the tracker that saved it, so an
\* agent that was budget-exhausted before the reload still is after it.
C28_ReloadKeepsLedger ==
    [][(tracker_reload /\ state_file = SaveData(tracker)) =>
          /\ tracker' = tracker
          /\ \A n \in AgentNames :
                (tracker[n] /= NoAgent /\ IsBudgetExhausted(tracker[n]))
                    => (tracker'[n] /= NoAgent /\ IsBudgetExhausted(tracker'[n]))
      ]_vars

\* C29: for every valid TaskRequest r, TaskRequest.from_dict(r.to_dict()) equals
\* r field for field: type, description, files, context, constraints,
\* output_format, priority, callback and timeout_seconds.
C29_RequestRoundTrip ==
    request.back /= NoResp =>
        /\ ~IsError(request.back)
        /\ request.back.type = request.r.type
        /\ request.back.description = request.r.description
        /\ request.back.files = request.r.files
        /\ request.back.context = request.r.context
        /\ request.back.constraints = request.r.constraints
        /\ request.back.output_format = request.r.output_format
        /\ request.back.priority = request.r.priority
        /\ request.back.callback = request.r.callback
        /\ request.back.timeout_seconds = request.r.timeout_seconds

\* the request of test_task_request_roundtrip, no field at its default, has
\* come back
C29_Witness ==
    /\ request.r = TaskRequest("code", "test", <<"a", "b">>, "ctx", <<"c1">>,
                               "json", "high", "cb", <<5>>)
    /\ request.back = request.r

\* C30: after write_task(r) has completed, load_task(r.task_id), on the same
\* TaskStorage or on a new one over the same root, returns a record with the
\* task_id, request, status, timestamps, result, error and requester identity
\* of r; and load_all holds exactly the ids written. The result payloads are
\* text, as the executors of this repository return.
C30_StorageRoundTrip ==
    /\ roundtrip.one /= NoResp =>
          /\ roundtrip.one /= NoRecord /\ ~IsError(roundtrip.one)
          /\ roundtrip.one.task_id = roundtrip.rec.task_id
          /\ roundtrip.one.request = roundtrip.rec.request
          /\ roundtrip.one.status = roundtrip.rec.status
          /\ roundtrip.one.created_at = roundtrip.rec.created_at
          /\ roundtrip.one.started_at = roundtrip.rec.started_at
          /\ roundtrip.one.completed_at = roundtrip.rec.completed_at
          /\ roundtrip.one.result = roundtrip.rec.result
          /\ roundtrip.one.error = roundtrip.rec.error
          /\ roundtrip.one.requester_did = roundtrip.rec.requester_did
    /\ roundtrip.all /= NoResp =>
          /\ {t \in DOMAIN roundtrip.all : roundtrip.all[t] /= NoRecord} = roundtrip.ids
          /\ \A t \in roundtrip.ids :
                ~IsError(roundtrip.all[t]) /\ roundtrip.all[t].task_id = t

\* both tasks were written, the last record with a requester and a result
\* that has every field set, and a new TaskStorage has loaded it and all
C30_Witness ==
    /\ roundtrip.rec /= NoRecord
    /\ roundtrip.rec.requester_did = "test-requester-did"
    /\ roundtrip.rec.result /= NoResult
    /\ roundtrip.rec.result.files_created /= <<>>
    /\ roundtrip.one = roundtrip.rec
    /\ roundtrip.fresh
    /\ roundtrip.all /= NoResp
    /\ roundtrip.ids = StoredTasks

\* C31: get_best_agent_for_task(task_type, available_agents) considers only
\* the agents of available_agents with at least 3 samples for (agent,
\* task_type); it returns None when there is none, and otherwise one of them
\* that no other beats: none has a higher success rate, and none with the same
\* success rate has a lower average duration. Rates and averages are compared
\* here as fractions of integers.
C31_Eligible ==
    {pick'.available_agents[i] : i \in 1..Len(pick'.available_agents)}
        \cap {a \in PerfAgents : PerfCount(perf, a, pick'.task_type) >= 3}

C31_BestByHistory ==
    [][get_best_agent_for_task(pick'.task_type, pick'.available_agents) =>
          LET t == pick'.task_type
              v == pick'.value
          IN  /\ (v = None) <=> (C31_Eligible = {})
              /\ C31_Eligible /= {} =>
                   /\ v \in C31_Eligible
                   /\ \A b \in C31_Eligible :
                        /\ PerfSuccess(perf, v, t) * PerfCount(perf, b, t)
                             >= PerfSuccess(perf, b, t) * PerfCount(perf, v, t)
                        /\ (PerfSuccess(perf, v, t) * PerfCount(perf, b, t)
                               = PerfSuccess(perf, b, t) * PerfCount(perf, v, t))
                             => PerfDuration(perf, v, t) * PerfCount(perf, b, t)
                                  <= PerfDuration(perf, b, t) * PerfCount(perf, v, t)
      ]_vars

\* both agents have three samples of code tasks and the same success rate,
\* and the second of the list was returned for its lower average duration
C31_Witness ==
    /\ pick.task_type = "code" /\ pick.available_agents = <<"codex", "gemini">>
    /\ pick.value = "gemini"
    /\ PerfCount(perf, "codex", "code") = 3 /\ PerfCount(perf, "gemini", "code") = 3
    /\ PerfSuccess(perf, "codex", "code") = PerfSuccess(perf, "gemini", "code")
    /\ PerfDuration(perf, "gemini", "code") < PerfDuration(perf, "codex", "code")

\* C32 (as claimed): a load_task(id) interleaved with write_task calls that
\* change the task's status, none of them cut short, ends in one of three ways
\* only: a complete record of the task, as it was before a write or as
\* written, or None; it never fails with an error.
C32_LoadDuringWrite ==
    [][(rop = "load_task" /\ rop' = "idle" /\ faults = 0) =>
          \/ rres'.kind = "none"
          \/ /\ rres'.kind = "record"
             /\ rres'.rec.task_id = rtask
             /\ \E st \in Statuses : rres'.rec.status = st
      ]_vars

\* C33 (as claimed): with two server processes of different agent names over
\* one ledger file, each booking its own tasks, no update is lost: a
\* record_task of one server leaves the persisted entry of the other agent as
\* it was.
C33_NoLostUpdate ==
    [][\A name \in AgentNames :
          (\E tokens_used \in TokenSamples : \E success \in BOOLEAN :
              server_record_task(name, tokens_used, success, IF success THEN None ELSE "boom"))
          => \A other \in AgentNames \ {name} :
                Persisted(state_file', other) = Persisted(state_file, other)
      ]_vars

\* C34 (as claimed): startup reconciliation fails only tasks whose owner has
\* stopped: when a second server instance is constructed over the root while
\* the first is awaiting the executor of a RUNNING task, the task's file is
\* still RUNNING afterwards.
C34_ReconcilesOnlyStopped ==
    [][second_server_starts =>
          \A t \in STasks : inflight[t] = "executing" => LoadTask(files', t).status = "running"
      ]_vars

\* C35 (as claimed): for every task record that carries a result, in the cache
\* and in the store, the status inside the result equals the status of the
\* record, whatever the executor returned.
C35_ResultStatusAgrees ==
    \A t \in STasks :
        /\ (tasks[t] /= NoRecord /\ tasks[t].result /= NoResult)
              => tasks[t].result.status = tasks[t].status
        /\ \A st \in Statuses :
              (Exists(files, t, st) /\ files[t][st].result /= NoResult)
                 => files[t][st].result.status = files[t][st].status

\* C36 (as claimed): whenever no server operation is in progress, every record
\* of the server's cache has the status of the record persisted for its id,
\* also after an operation that ended with the lock-timeout error of
\* write_task.
C36_CacheMatchesStore ==
    (alive /\ \A t \in STasks : inflight[t] = "no") =>
        \A t \in STasks :
            tasks[t] /= NoRecord =>
                /\ HasFile(files, t)
                /\ LoadTask(files, t).status = tasks[t].status

\* C37 (as claimed): in a server that stays up, with executors that end and
\* locks that are released, a task made RUNNING by submit_task eventually has
\* a terminal status (COMPLETED, FAILED or CANCELLED) persisted in the store.
C37_EventuallyTerminal ==
    \A t \in STasks :
        (inflight[t] = "executing") ~>
            (\E st \in {"completed", "failed", "cancelled"} : Exists(files, t, st))

\* C38: the executor is invoked at most once per submitted task: the calls
\* made for a task id hold at most one await of execute_task, also after the
\* executor failed and after the server was restarted over PENDING and RUNNING
\* records, and an executor is awaited only by the submit_task call that
\* created the task.
C38_Executions(t) == Cardinality({i \in DOMAIN calls[t] : calls[t][i] = "execute"})

C38_ExecutedAtMostOnce ==
    \A t \in STasks :
        /\ C38_Executions(t) <= 1
        /\ inflight[t] /= "no" =>
              /\ C38_Executions(t) = 1
              /\ tasks[t] /= NoRecord /\ tasks[t].error /= RestartError

\* a restarted server holds a task it reconciled to FAILED and one it loaded as
\* PENDING, and awaits neither: the first was executed once, the second never
C38_Witness ==
    /\ alive
    /\ \E t, u \in STasks :
         /\ tasks[t] /= NoRecord /\ tasks[t].status = "failed"
         /\ tasks[t].error = RestartError
         /\ C38_Executions(t) = 1 /\ inflight[t] = "no"
         /\ tasks[u] /= NoRecord /\ tasks[u].status = "pending"
         /\ C38_Executions(u) = 0 /\ inflight[u] = "no"

\* C39 (as claimed): agent_status reports 'busy', the id of a running task as
\* current_task and a non-zero queue_depth exactly while the executor of some
\* task of this server is in flight, and 'ready' with no current task
\* otherwise; agent_info reports busy or ready as agent_status does.
C39_Running == {t \in STasks : inflight[t] /= "no"}

C39_StatusFollowsExecutor ==
    [][/\ agent_status =>
            IF C39_Running /= {}
            THEN /\ ret'.value.status = "busy"
                 /\ ret'.value.current_task \in C39_Running
                 /\ ret'.value.queue_depth > 0
            ELSE /\ ret'.value.status = "ready"
                 /\ ret'.value.current_task = 0
       /\ agent_info =>
            ret'.value.status = IF C39_Running /= {} THEN "busy" ELSE "ready"
      ]_vars

\* C40 (as claimed): auth is a pass/fail gate: the requester_did stored on the
\* record a submission creates is absent, or it is the issuer of an auth
\* document carrying a proof or an issuer whose signature verification
\* succeeded.
C40_Signed(auth) ==
    /\ auth.kind \in {"dict", "str"} /\ ~IsError(auth.doc)
    /\ ("proof" \in DOMAIN auth.doc \/ "issuer" \in DOMAIN auth.doc)

C40_RequesterVerified ==
    [][\A args \in SubmitArgs : \A verified \in BOOLEAN : \A t \in STasks :
          (submit_task(args, verified, t, FALSE) /\ tasks'[t] /= NoRecord) =>
              \/ tasks'[t].requester_did = None
              \/ /\ C40_Signed(Get(args, "auth", NoAuth))
                 /\ verified
                 /\ tasks'[t].requester_did = Get(args, "auth", NoAuth).doc.issuer
      ]_vars

====
